---- MODULE Spec2Model ----
(***************************************************************************)
(* A model of the SEO scoring engine of the analyzer's server              *)
(* (server/routes.ts, analyzeSEO).                                         *)
(*                                                                         *)
(* A text is a sequence of one-character strings.  An attribute read with  *)
(* cheerio's attr() is optional: Absent when no element or attribute       *)
(* matches, Attr(t) when it carries the text t (possibly the empty one).   *)
(* Texts that the program only builds (feedback, labels) are TLA+ strings. *)
(***************************************************************************)
EXTENDS Integers, Sequences, FiniteSets, TLC

VARIABLES url, doc, pageSpeedData, result, calls, requests, seoAnalyses,
          analyses, metadataJobs, jobs, apiKey

vars ==
  <<url, doc, pageSpeedData, result, calls, requests, seoAnalyses,
    analyses, metadataJobs, jobs, apiKey>>

(***************************************************************************)
(* Optional values and texts                                               *)
(***************************************************************************)
Absent == <<>>

Attr(t) == <<t>>

\* JavaScript truthiness of an optional string: defined and not empty.
Truthy(v) == v # Absent /\ v[1] # <<>>

\* `v || ''`
OrEmpty(v) == IF Truthy(v) THEN v[1] ELSE <<>>

\* a text of n letters
Letters(n) == [i \in 1..n |-> "a"]

\* a text of n blanks
Blanks(n) == [i \in 1..n |-> " "]

IsSpace(c) == c \in {" ", "\t", "\n"}

RECURSIVE TrimStart(_)
TrimStart(t) ==
  IF t = <<>> THEN <<>>
  ELSE IF IsSpace(Head(t)) THEN TrimStart(Tail(t)) ELSE t

RECURSIVE TrimEnd(_)
TrimEnd(t) ==
  IF t = <<>> THEN <<>>
  ELSE IF IsSpace(t[Len(t)]) THEN TrimEnd(SubSeq(t, 1, Len(t) - 1)) ELSE t

\* String.prototype.trim
Trim(t) == TrimEnd(TrimStart(t))

\* String.prototype.includes
Includes(t, pat) ==
  \E i \in 1..(Len(t) - Len(pat) + 1) : SubSeq(t, i, i + Len(pat) - 1) = pat

(***************************************************************************)
(* Thresholds of the analyzers                                             *)
(***************************************************************************)
TitleMinLength == 30
TitleMaxLength == 60
DescriptionMinLength == 120
DescriptionMaxLength == 160

(***************************************************************************)
(* Title                                                                   *)
(***************************************************************************)
title(d) == Trim(d.titleText)

titleLength(d) == Len(title(d))

\* titleStatus without the branch for the empty title
titleStatusEmptyIsShort(titleLen) ==
  IF titleLen < TitleMinLength THEN "warning"
  ELSE IF titleLen > TitleMaxLength THEN "warning"
  ELSE "good"

\* titleStatus with the lower bound taken inclusive
titleStatusInclusiveMin(titleLen) ==
  IF titleLen = 0 THEN "error"
  ELSE IF titleLen <= TitleMinLength THEN "warning"
  ELSE IF titleLen > TitleMaxLength THEN "warning"
  ELSE "good"

titleStatus(titleLen) ==
  IF titleLen = 0 THEN "error"
  ELSE IF titleLen < TitleMinLength THEN "warning"
  ELSE IF titleLen > TitleMaxLength THEN "warning"
  ELSE "good"

titleFeedback(titleLen) ==
  IF titleLen = 0
    THEN "Missing title tag. Search engines use this as the main headline."
  ELSE IF titleLen < TitleMinLength
    THEN "Your title is too short at " \o ToString(titleLen)
           \o " characters (recommended 50-60 characters)."
  ELSE IF titleLen > TitleMaxLength
    THEN "Your title is too long at " \o ToString(titleLen)
           \o " characters (recommended 50-60 characters)."
  ELSE "Great! Your title is an optimal length."

(***************************************************************************)
(* Meta description                                                        *)
(***************************************************************************)
description(d) == OrEmpty(d.description)

descriptionLength(d) == Len(description(d))

\* descriptionStatus with the upper bound taken inclusive
descriptionStatusInclusiveMax(descLen) ==
  IF descLen = 0 THEN "error"
  ELSE IF descLen < DescriptionMinLength THEN "warning"
  ELSE IF descLen >= DescriptionMaxLength THEN "warning"
  ELSE "good"

descriptionStatus(descLen) ==
  IF descLen = 0 THEN "error"
  ELSE IF descLen < DescriptionMinLength THEN "warning"
  ELSE IF descLen > DescriptionMaxLength THEN "warning"
  ELSE "good"

descriptionFeedback(descLen) ==
  IF descLen = 0
    THEN "Missing meta description. This is important for search result snippets."
  ELSE IF descLen < DescriptionMinLength
    THEN "Your description is too short at " \o ToString(descLen)
           \o " characters (recommended 120-160 characters)."
  ELSE IF descLen > DescriptionMaxLength
    THEN "Your description is too long at " \o ToString(descLen)
           \o " characters (recommended 120-160 characters)."
  ELSE "Great! Your description is an optimal length."

(***************************************************************************)
(* Open Graph                                                              *)
(***************************************************************************)
\* ogStatus that takes an incomplete set for worse than none
ogStatusIncompleteIsWorst(ogTitle, ogDescription, ogImage, ogUrl, ogType) ==
  IF ogTitle = <<>> /\ ogDescription = <<>> /\ ogImage = <<>> THEN "warning"
  ELSE IF ogTitle = <<>> \/ ogDescription = <<>> \/ ogImage = <<>> THEN "error"
  ELSE "good"

\* ogStatus that also asks for og:url in a complete set
ogStatusWithUrl(ogTitle, ogDescription, ogImage, ogUrl, ogType) ==
  IF ogTitle = <<>> /\ ogDescription = <<>> /\ ogImage = <<>> THEN "error"
  ELSE IF ogTitle = <<>> \/ ogDescription = <<>> \/ ogImage = <<>> \/ ogUrl = <<>>
    THEN "warning"
  ELSE "good"

ogStatus(ogTitle, ogDescription, ogImage, ogUrl, ogType) ==
  IF ogTitle = <<>> /\ ogDescription = <<>> /\ ogImage = <<>> THEN "error"
  ELSE IF ogTitle = <<>> \/ ogDescription = <<>> \/ ogImage = <<>> THEN "warning"
  ELSE "good"

ogFeedback(status) ==
  IF status = "error"
    THEN "No Open Graph tags found. Adding these tags improves how your content appears when shared on social media."
  ELSE IF status = "warning"
    THEN "Some Open Graph tags are missing. Complete the set for better social sharing."
  ELSE "All essential Open Graph tags are present."

(***************************************************************************)
(* Twitter Card                                                            *)
(***************************************************************************)
\* twitterStatus that leaves twitter:card out, as ogStatus leaves og:type out
twitterStatusWithoutCard(twitterCard, twitterTitle, twitterDescription, twitterImage) ==
  IF twitterTitle = <<>> /\ twitterDescription = <<>> /\ twitterImage = <<>> THEN "error"
  ELSE IF twitterTitle = <<>> \/ twitterDescription = <<>> \/ twitterImage = <<>>
    THEN "warning"
  ELSE "good"

twitterStatus(twitterCard, twitterTitle, twitterDescription, twitterImage) ==
  IF twitterCard = <<>> /\ twitterTitle = <<>>
       /\ twitterDescription = <<>> /\ twitterImage = <<>> THEN "error"
  ELSE IF twitterCard = <<>> \/ twitterTitle = <<>>
       \/ twitterDescription = <<>> \/ twitterImage = <<>> THEN "warning"
  ELSE "good"

twitterFeedback(status) ==
  IF status = "error"
    THEN "No Twitter Card tags found. These tags control how your content appears when shared on Twitter."
  ELSE IF status = "warning"
    THEN "Some Twitter Card tags are missing. Complete the set for better Twitter sharing."
  ELSE "All essential Twitter Card tags are present."

(***************************************************************************)
(* Additional meta tags (one row each, in this order)                      *)
(***************************************************************************)
keywordsStatus(keywords) == IF Truthy(keywords) THEN "warning" ELSE "error"

canonicalStatus(canonical) == IF Truthy(canonical) THEN "good" ELSE "error"

\* robotsStatus that treats a missing robots meta as an error
robotsStatusMissingIsError(robots) == IF Truthy(robots) THEN "good" ELSE "error"

robotsStatus(robots) == IF Truthy(robots) THEN "good" ELSE "warning"

viewportStatus(viewport) == IF Truthy(viewport) THEN "good" ELSE "error"

IndexFollow == Attr(<<"i", "n", "d", "e", "x", ",", " ", "f", "o", "l", "l", "o", "w">>)

\* metaTags that leaves the keywords row out when the page has no keywords
metaTagsKeywordsWhenPresent(titleText, titleSt, titleFb, descriptionText, descriptionSt, descriptionFb, keywords, canonical, robots, viewport) ==
  LET head ==
    << [type |-> "Title",
        content |-> Attr(titleText),
        status |-> titleSt,
        recommendation |-> titleFb],
       [type |-> "Meta Description",
        content |-> Attr(descriptionText),
        status |-> descriptionSt,
        recommendation |-> descriptionFb] >>
      keywordsRow ==
        << [type |-> "Meta Keywords",
         content |-> keywords,
         status |-> keywordsStatus(keywords),
         recommendation |-> "Not critical for rankings but can be added"] >>
      tail ==
        << [type |-> "Canonical URL",
         content |-> canonical,
         status |-> canonicalStatus(canonical),
         recommendation |-> IF Truthy(canonical) THEN "No change needed"
                            ELSE "Add a canonical URL to prevent duplicate content issues"],
        [type |-> "Robots Meta",
         content |-> IF Truthy(robots) THEN robots ELSE IndexFollow,
         status |-> robotsStatus(robots),
         recommendation |-> IF Truthy(robots) THEN "No change needed"
                            ELSE "Consider adding robots meta tag for explicit crawl instructions"],
        [type |-> "Viewport",
         content |-> viewport,
         status |-> viewportStatus(viewport),
         recommendation |-> IF Truthy(viewport) THEN "No change needed"
                            ELSE "Add viewport meta tag for mobile responsiveness"] >>
  IN head \o (IF Truthy(keywords) THEN keywordsRow ELSE <<>>) \o tail

metaTags(titleText, titleSt, titleFb, descriptionText, descriptionSt, descriptionFb, keywords, canonical, robots, viewport) ==
  << [type |-> "Title",
      content |-> Attr(titleText),
      status |-> titleSt,
      recommendation |-> titleFb],
     [type |-> "Meta Description",
      content |-> Attr(descriptionText),
      status |-> descriptionSt,
      recommendation |-> descriptionFb],
     [type |-> "Meta Keywords",
      content |-> keywords,
      status |-> keywordsStatus(keywords),
      recommendation |-> "Not critical for rankings but can be added"],
     [type |-> "Canonical URL",
      content |-> canonical,
      status |-> canonicalStatus(canonical),
      recommendation |-> IF Truthy(canonical) THEN "No change needed"
                         ELSE "Add a canonical URL to prevent duplicate content issues"],
     [type |-> "Robots Meta",
      content |-> IF Truthy(robots) THEN robots ELSE IndexFollow,
      status |-> robotsStatus(robots),
      recommendation |-> IF Truthy(robots) THEN "No change needed"
                         ELSE "Consider adding robots meta tag for explicit crawl instructions"],
     [type |-> "Viewport",
      content |-> viewport,
      status |-> viewportStatus(viewport),
      recommendation |-> IF Truthy(viewport) THEN "No change needed"
                         ELSE "Add viewport meta tag for mobile responsiveness"] >>

(***************************************************************************)
(* Mobile friendliness                                                     *)
(***************************************************************************)
PatMedia == <<"@", "m", "e", "d", "i", "a">>
PatMinHeight == <<"m", "i", "n", "-", "h", "e", "i", "g", "h", "t">>
PatMinWidth == <<"m", "i", "n", "-", "w", "i", "d", "t", "h">>
PatTouchAction == <<"t", "o", "u", "c", "h", "-", "a", "c", "t", "i", "o", "n">>
PatUserSelect == <<"u", "s", "e", "r", "-", "s", "e", "l", "e", "c", "t">>
PatEm == <<"e", "m">>
PatRem == <<"r", "e", "m">>
PatVh == <<"v", "h">>
PatVw == <<"v", "w">>
PatFlex == <<"f", "l", "e", "x">>
PatDisplayFlex == <<"d", "i", "s", "p", "l", "a", "y", ":", " ", "f", "l", "e", "x">>
PatGrid == <<"g", "r", "i", "d">>
PatDisplayGrid == <<"d", "i", "s", "p", "l", "a", "y", ":", " ", "g", "r", "i", "d">>

\* hasViewport that takes the viewport tag for granted
hasViewportAlways(viewport) == TRUE

hasViewport(viewport) == Truthy(viewport)

mediaQueryCount(styleElements) ==
  Cardinality({i \in 1..Len(styleElements) : Includes(styleElements[i], PatMedia)})

hasMediaQueries(styleElements) == mediaQueryCount(styleElements) > 0

hasTouchElements(styleElements) ==
  \E i \in 1..Len(styleElements) :
    \/ Includes(styleElements[i], PatMinHeight)
    \/ Includes(styleElements[i], PatMinWidth)
    \/ Includes(styleElements[i], PatTouchAction)
    \/ Includes(styleElements[i], PatUserSelect)

hasFontReadability(styleElements) ==
  \E i \in 1..Len(styleElements) :
    \/ Includes(styleElements[i], PatEm)
    \/ Includes(styleElements[i], PatRem)
    \/ Includes(styleElements[i], PatVh)
    \/ Includes(styleElements[i], PatVw)

hasFlexbox(inlineStyles) ==
  \E i \in 1..Len(inlineStyles) :
    \/ Includes(OrEmpty(inlineStyles[i]), PatFlex)
    \/ Includes(OrEmpty(inlineStyles[i]), PatDisplayFlex)

hasGrid(inlineStyles) ==
  \E i \in 1..Len(inlineStyles) :
    \/ Includes(OrEmpty(inlineStyles[i]), PatGrid)
    \/ Includes(OrEmpty(inlineStyles[i]), PatDisplayGrid)

hasResponsiveImage(responsiveImages) == responsiveImages > 0

\* hasResponsiveDesign that leaves the media queries out
hasResponsiveDesignWithoutMedia(d) ==
  \/ hasFlexbox(d.inlineStyles)
  \/ hasGrid(d.inlineStyles)
  \/ hasResponsiveImage(d.responsiveImages)

hasResponsiveDesign(d) ==
  \/ hasFlexbox(d.inlineStyles)
  \/ hasGrid(d.inlineStyles)
  \/ hasResponsiveImage(d.responsiveImages)
  \/ hasMediaQueries(d.styleElements)

ViewportPoints == 40
ResponsiveDesignPoints == 25
TouchElementsPoints == 15
FontReadabilityPoints == 10
MediaQueriesPoints == 10

\* mobileScore that adds the responsive design points for media queries too
mobileScoreMediaAsResponsive(viewportFlag, responsiveFlag, touchFlag, fontFlag, mediaFlag) ==
    (IF viewportFlag THEN ViewportPoints ELSE 0)
  + (IF responsiveFlag THEN ResponsiveDesignPoints ELSE 0)
  + (IF touchFlag THEN TouchElementsPoints ELSE 0)
  + (IF fontFlag THEN FontReadabilityPoints ELSE 0)
  + (IF mediaFlag THEN ResponsiveDesignPoints ELSE 0)

mobileScore(viewportFlag, responsiveFlag, touchFlag, fontFlag, mediaFlag) ==
    (IF viewportFlag THEN ViewportPoints ELSE 0)
  + (IF responsiveFlag THEN ResponsiveDesignPoints ELSE 0)
  + (IF touchFlag THEN TouchElementsPoints ELSE 0)
  + (IF fontFlag THEN FontReadabilityPoints ELSE 0)
  + (IF mediaFlag THEN MediaQueriesPoints ELSE 0)

MobileGoodScore == 80
MobileWarningScore == 50
MobileExcellentScore == 90

\* mobileStatus with both bands exclusive
mobileStatusExclusive(mScore) ==
  IF mScore > MobileGoodScore THEN "good"
  ELSE IF mScore > MobileWarningScore THEN "warning"
  ELSE "error"

mobileStatus(mScore) ==
  IF mScore >= MobileGoodScore THEN "good"
  ELSE IF mScore >= MobileWarningScore THEN "warning"
  ELSE "error"

mobileFeedback(mScore) ==
  IF mScore >= MobileExcellentScore
    THEN "Excellent! Your website appears to be very mobile-friendly."
  ELSE IF mScore >= MobileGoodScore
    THEN "Good! Your website has most of the elements needed for mobile users."
  ELSE IF mScore >= MobileWarningScore
    THEN "Needs improvement. Your site has some mobile-friendly elements, but could be better optimized."
  ELSE "Major improvements needed. Your site doesn't appear to be optimized for mobile devices."

mobileFriendliness(d) ==
  LET vp == hasViewport(d.viewport)
      rd == hasResponsiveDesign(d)
      te == hasTouchElements(d.styleElements)
      fr == hasFontReadability(d.styleElements)
      mq == hasMediaQueries(d.styleElements)
      ms == mobileScore(vp, rd, te, fr, mq)
  IN [score |-> ms,
      status |-> mobileStatus(ms),
      viewport |-> vp,
      responsiveDesign |-> rd,
      touchElements |-> te,
      fontReadability |-> fr,
      mediaQueries |-> mq,
      feedback |-> mobileFeedback(ms)]

(***************************************************************************)
(* Page speed                                                              *)
(***************************************************************************)
DefaultLoadTime == 2000
DefaultResourceSize == 500
DefaultRequestCount == 1

\* the substitute for missing page speed data
DefaultPageSpeedData ==
  [loadTime |-> DefaultLoadTime,
   resourceSize |-> <<DefaultResourceSize>>,
   requestCount |-> <<DefaultRequestCount>>]

\* `n || dflt` for an optional number
NumberOr(n, dflt) == IF n = <<>> \/ n[1] = 0 THEN dflt ELSE n[1]

SlowLoadTime == 3000
MediumLoadTime == 1500

\* pageSpeedStatus with both bands inclusive
pageSpeedStatusInclusive(loadTime, resourceSize, requestCount) ==
  IF loadTime >= SlowLoadTime THEN "error"
  ELSE IF loadTime >= MediumLoadTime THEN "warning"
  ELSE "good"

pageSpeedStatus(loadTime, resourceSize, requestCount) ==
  IF loadTime > SlowLoadTime THEN "error"
  ELSE IF loadTime > MediumLoadTime THEN "warning"
  ELSE "good"

pageSpeedFeedback(loadTime) ==
  IF loadTime > SlowLoadTime
    THEN "Page load time is slow. Consider optimizing resources."
  ELSE IF loadTime > MediumLoadTime
    THEN "Page load time is acceptable but could be improved."
  ELSE "Your page loads quickly and efficiently."

\* pageSpeed that adds up the requests of all the calls made so far
pageSpeedCountingCalls(psd) ==
  LET data == IF psd = <<>> THEN DefaultPageSpeedData ELSE psd[1]
      loadTime == data.loadTime
      resourceSize == NumberOr(data.resourceSize, 0)
      requestCount == NumberOr(data.requestCount, 1) + calls
  IN [loadTime |-> loadTime,
      resourceSize |-> resourceSize,
      requestCount |-> requestCount,
      status |-> pageSpeedStatus(loadTime, resourceSize, requestCount),
      feedback |-> pageSpeedFeedback(loadTime)]

\* pageSpeed whose substitute for missing data gives no resource size
pageSpeedDefaultWithoutSize(psd) ==
  LET data == IF psd = <<>>
                THEN [loadTime |-> DefaultLoadTime, resourceSize |-> <<>>,
                      requestCount |-> <<DefaultRequestCount>>]
                ELSE psd[1]
      loadTime == data.loadTime
      resourceSize == NumberOr(data.resourceSize, 0)
      requestCount == NumberOr(data.requestCount, 1)
  IN [loadTime |-> loadTime,
      resourceSize |-> resourceSize,
      requestCount |-> requestCount,
      status |-> pageSpeedStatus(loadTime, resourceSize, requestCount),
      feedback |-> pageSpeedFeedback(loadTime)]

pageSpeed(psd) ==
  LET data == IF psd = <<>> THEN DefaultPageSpeedData ELSE psd[1]
      loadTime == data.loadTime
      resourceSize == NumberOr(data.resourceSize, 0)
      requestCount == NumberOr(data.requestCount, 1)
  IN [loadTime |-> loadTime,
      resourceSize |-> resourceSize,
      requestCount |-> requestCount,
      status |-> pageSpeedStatus(loadTime, resourceSize, requestCount),
      feedback |-> pageSpeedFeedback(loadTime)]

(***************************************************************************)
(* Recommendations: each rule appends its entry when triggered             *)
(***************************************************************************)
OpenGraphRecommendation ==
  [title |-> "Add Open Graph Tags",
   description |-> "Open Graph metadata improves the way your content appears when shared on social platforms like Facebook, LinkedIn, and others.",
   status |-> "warning",
   exampleCode |-> "<meta property=\"og:title\" content=\"Your Page Title\" />\n<meta property=\"og:description\" content=\"Your page description...\" />\n<meta property=\"og:image\" content=\"https://yourdomain.com/image.jpg\" />\n<meta property=\"og:url\" content=\"https://yourdomain.com/page\" />\n<meta property=\"og:type\" content=\"website\" />"]

TwitterRecommendation ==
  [title |-> "Add Twitter Card Tags",
   description |-> "Twitter Card tags ensure your content looks great when shared on Twitter with rich images and properly formatted text.",
   status |-> "warning",
   exampleCode |-> "<meta name=\"twitter:card\" content=\"summary_large_image\" />\n<meta name=\"twitter:title\" content=\"Your Page Title\" />\n<meta name=\"twitter:description\" content=\"Your page description...\" />\n<meta name=\"twitter:image\" content=\"https://yourdomain.com/image.jpg\" />"]

CanonicalRecommendation ==
  [title |-> "Add Canonical URL",
   description |-> "A canonical URL helps prevent duplicate content issues by specifying the preferred version of a page.",
   status |-> "warning",
   exampleCode |-> "<link rel=\"canonical\" href=\"https://yourdomain.com/page\" />"]

DescriptionLengthRecommendation ==
  [title |-> "Meta Description Length",
   description |-> "Consider extending your meta description to between 120-160 characters to maximize visibility in search results.",
   status |-> "warning"]

ViewportRecommendation ==
  [title |-> "Add Viewport Meta Tag",
   description |-> "The viewport meta tag is essential for responsive design. It ensures your website displays correctly on all devices.",
   status |-> "error",
   exampleCode |-> "<meta name=\"viewport\" content=\"width=device-width, initial-scale=1.0\">"]

ResponsiveDesignRecommendation ==
  [title |-> "Implement Responsive Design",
   description |-> "Your site doesn't appear to use responsive design techniques like flexbox, grid, or media queries. These are essential for mobile optimization.",
   status |-> "warning",
   exampleCode |-> "/* Use responsive units */\n.container {\n  display: flex;\n  flex-wrap: wrap;\n}\n\n/* Add media queries */\n@media (max-width: 768px) {\n  .column {\n    width: 100%;\n  }\n}"]

TouchRecommendation ==
  [title |-> "Optimize for Touch Devices",
   description |-> "Ensure interactive elements are large enough for touch interactions. Use appropriate spacing for touch targets.",
   status |-> "warning",
   exampleCode |-> "/* Make buttons touch-friendly */\n.button {\n  min-height: 44px;\n  min-width: 44px;\n  padding: 12px 16px;\n  touch-action: manipulation;\n}"]

FontRecommendation ==
  [title |-> "Improve Font Readability",
   description |-> "Use relative font units like 'em' or 'rem' instead of fixed pixel sizes to ensure text scales properly on all devices.",
   status |-> "warning",
   exampleCode |-> "/* Use relative font units */\nbody {\n  font-size: 16px; /* Base size */\n}\nh1 {\n  font-size: 2rem; /* Relative to root */\n}\np {\n  font-size: 1em; /* Relative to parent */\n}"]

PageSpeedRecommendation(speedStatus) ==
  [title |-> "Improve Page Speed",
   description |-> "Fast loading times are crucial for user experience and SEO. Consider optimizing images, minifying CSS/JS, and using browser caching.",
   status |-> speedStatus,
   exampleCode |-> "<!-- Enable browser caching -->\n<IfModule mod_expires.c>\n  ExpiresActive On\n  ExpiresByType image/jpg \"access plus 1 year\"\n  ExpiresByType image/jpeg \"access plus 1 year\"\n  ExpiresByType image/gif \"access plus 1 year\"\n  ExpiresByType image/png \"access plus 1 year\"\n  ExpiresByType text/css \"access plus 1 month\"\n  ExpiresByType application/javascript \"access plus 1 month\"\n</IfModule>"]

\* recommendations.push(r) when the rule's condition holds
PushIf(cond, r) == IF cond THEN <<r>> ELSE <<>>

\* recommendations whose description rule fires on every description warning
recommendationsAnyDescriptionWarning(ogSt, twitterSt, canonical, descriptionSt, descLen, viewportFlag, responsiveFlag, touchFlag, fontFlag, speedStatus) ==
     PushIf(ogSt # "good", OpenGraphRecommendation)
  \o PushIf(twitterSt # "good", TwitterRecommendation)
  \o PushIf(~Truthy(canonical), CanonicalRecommendation)
  \o PushIf(descriptionSt = "warning", DescriptionLengthRecommendation)
  \o PushIf(~viewportFlag, ViewportRecommendation)
  \o PushIf(~responsiveFlag, ResponsiveDesignRecommendation)
  \o PushIf(~touchFlag, TouchRecommendation)
  \o PushIf(~fontFlag, FontRecommendation)
  \o PushIf(speedStatus # "good", PageSpeedRecommendation(speedStatus))

\* recommendations without the page speed rule
recommendationsWithoutPageSpeed(ogSt, twitterSt, canonical, descriptionSt, descLen, viewportFlag, responsiveFlag, touchFlag, fontFlag, speedStatus) ==
     PushIf(ogSt # "good", OpenGraphRecommendation)
  \o PushIf(twitterSt # "good", TwitterRecommendation)
  \o PushIf(~Truthy(canonical), CanonicalRecommendation)
  \o PushIf(descriptionSt = "warning" /\ descLen < DescriptionMinLength,
            DescriptionLengthRecommendation)
  \o PushIf(~viewportFlag, ViewportRecommendation)
  \o PushIf(~responsiveFlag, ResponsiveDesignRecommendation)
  \o PushIf(~touchFlag, TouchRecommendation)
  \o PushIf(~fontFlag, FontRecommendation)

\* recommendations sorted by severity: the errors first
recommendationsErrorsFirst(ogSt, twitterSt, canonical, descriptionSt, descLen, viewportFlag, responsiveFlag, touchFlag, fontFlag, speedStatus) ==
  LET pushed ==
           PushIf(ogSt # "good", OpenGraphRecommendation)
        \o PushIf(twitterSt # "good", TwitterRecommendation)
        \o PushIf(~Truthy(canonical), CanonicalRecommendation)
        \o PushIf(descriptionSt = "warning" /\ descLen < DescriptionMinLength,
                  DescriptionLengthRecommendation)
        \o PushIf(~viewportFlag, ViewportRecommendation)
        \o PushIf(~responsiveFlag, ResponsiveDesignRecommendation)
        \o PushIf(~touchFlag, TouchRecommendation)
        \o PushIf(~fontFlag, FontRecommendation)
        \o PushIf(speedStatus # "good", PageSpeedRecommendation(speedStatus))
  IN SelectSeq(pushed, LAMBDA r : r.status = "error")
       \o SelectSeq(pushed, LAMBDA r : r.status # "error")

recommendations(ogSt, twitterSt, canonical, descriptionSt, descLen, viewportFlag, responsiveFlag, touchFlag, fontFlag, speedStatus) ==
     PushIf(ogSt # "good", OpenGraphRecommendation)
  \o PushIf(twitterSt # "good", TwitterRecommendation)
  \o PushIf(~Truthy(canonical), CanonicalRecommendation)
  \o PushIf(descriptionSt = "warning" /\ descLen < DescriptionMinLength,
            DescriptionLengthRecommendation)
  \o PushIf(~viewportFlag, ViewportRecommendation)
  \o PushIf(~responsiveFlag, ResponsiveDesignRecommendation)
  \o PushIf(~touchFlag, TouchRecommendation)
  \o PushIf(~fontFlag, FontRecommendation)
  \o PushIf(speedStatus # "good", PageSpeedRecommendation(speedStatus))

(***************************************************************************)
(* Overall score                                                           *)
(***************************************************************************)
Max(a, b) == IF a >= b THEN a ELSE b

Min(a, b) == IF a <= b THEN a ELSE b

\* score that deducts for an error on top of the deduction for a warning
scoreErrorOnTopOfWarning(titleSt, descriptionSt, ogSt, twitterSt, canonical, viewport, mScore) ==
  LET s0 == 100
      s1 == IF titleSt # "good" THEN s0 - 5 ELSE s0
      s2 == IF titleSt = "error" THEN s1 - 15 ELSE s1
      s3 == IF descriptionSt # "good" THEN s2 - 5 ELSE s2
      s4 == IF descriptionSt = "error" THEN s3 - 15 ELSE s3
      s5 == IF ogSt # "good" THEN s4 - 10 ELSE s4
      s6 == IF ogSt = "error" THEN s5 - 15 ELSE s5
      s7 == IF twitterSt # "good" THEN s6 - 10 ELSE s6
      s8 == IF twitterSt = "error" THEN s7 - 15 ELSE s7
      s9 == IF ~Truthy(canonical) THEN s8 - 10 ELSE s8
      s10 == IF ~Truthy(viewport) THEN s9 - 10 ELSE s9
      s11 == IF mScore < 50 THEN s10 - 15
             ELSE IF mScore < 80 THEN s10 - 8 ELSE s10
  IN Max(0, Min(100, s11))

\* score whose two mobile deductions stack (the else is lost)
scoreMobileStacking(titleSt, descriptionSt, ogSt, twitterSt, canonical, viewport, mScore) ==
  LET s0 == 100
      s1 == IF titleSt = "warning" THEN s0 - 5 ELSE s0
      s2 == IF titleSt = "error" THEN s1 - 15 ELSE s1
      s3 == IF descriptionSt = "warning" THEN s2 - 5 ELSE s2
      s4 == IF descriptionSt = "error" THEN s3 - 15 ELSE s3
      s5 == IF ogSt = "warning" THEN s4 - 10 ELSE s4
      s6 == IF ogSt = "error" THEN s5 - 15 ELSE s5
      s7 == IF twitterSt = "warning" THEN s6 - 10 ELSE s6
      s8 == IF twitterSt = "error" THEN s7 - 15 ELSE s7
      s9 == IF ~Truthy(canonical) THEN s8 - 10 ELSE s8
      s10 == IF ~Truthy(viewport) THEN s9 - 10 ELSE s9
      s11 == IF mScore < 50 THEN s10 - 15 ELSE s10
      s12 == IF mScore < 80 THEN s11 - 8 ELSE s11
  IN Max(0, Min(100, s12))

\* score that deducts the whole mobile shortfall and is not clamped
scoreMobileShortfall(titleSt, descriptionSt, ogSt, twitterSt, canonical, viewport, mScore) ==
  LET s0 == 100
      s1 == IF titleSt = "warning" THEN s0 - 5 ELSE s0
      s2 == IF titleSt = "error" THEN s1 - 15 ELSE s1
      s3 == IF descriptionSt = "warning" THEN s2 - 5 ELSE s2
      s4 == IF descriptionSt = "error" THEN s3 - 15 ELSE s3
      s5 == IF ogSt = "warning" THEN s4 - 10 ELSE s4
      s6 == IF ogSt = "error" THEN s5 - 15 ELSE s5
      s7 == IF twitterSt = "warning" THEN s6 - 10 ELSE s6
      s8 == IF twitterSt = "error" THEN s7 - 15 ELSE s7
      s9 == IF ~Truthy(canonical) THEN s8 - 10 ELSE s8
      s10 == IF ~Truthy(viewport) THEN s9 - 10 ELSE s9
  IN s10 - (100 - mScore)

score(titleSt, descriptionSt, ogSt, twitterSt, canonical, viewport, mScore) ==
  LET s0 == 100
      s1 == IF titleSt = "warning" THEN s0 - 5 ELSE s0
      s2 == IF titleSt = "error" THEN s1 - 15 ELSE s1
      s3 == IF descriptionSt = "warning" THEN s2 - 5 ELSE s2
      s4 == IF descriptionSt = "error" THEN s3 - 15 ELSE s3
      s5 == IF ogSt = "warning" THEN s4 - 10 ELSE s4
      s6 == IF ogSt = "error" THEN s5 - 15 ELSE s5
      s7 == IF twitterSt = "warning" THEN s6 - 10 ELSE s6
      s8 == IF twitterSt = "error" THEN s7 - 15 ELSE s7
      s9 == IF ~Truthy(canonical) THEN s8 - 10 ELSE s8
      s10 == IF ~Truthy(viewport) THEN s9 - 10 ELSE s9
      s11 == IF mScore < 50 THEN s10 - 15
             ELSE IF mScore < 80 THEN s10 - 8 ELSE s10
  IN Max(0, Min(100, s11))

(***************************************************************************)
(* analyzeSEO(url, html, pageSpeedData): d stands for the parsed html      *)
(***************************************************************************)
analyzeSEO(u, d, psd) ==
  LET titleText == title(d)
      titleSt == titleStatus(titleLength(d))
      titleFb == titleFeedback(titleLength(d))
      descriptionText == description(d)
      descLen == descriptionLength(d)
      descriptionSt == descriptionStatus(descLen)
      descriptionFb == descriptionFeedback(descLen)
      ogTitle == OrEmpty(d.ogTitle)
      ogDescription == OrEmpty(d.ogDescription)
      ogImage == OrEmpty(d.ogImage)
      ogUrl == OrEmpty(d.ogUrl)
      ogType == OrEmpty(d.ogType)
      ogSt == ogStatus(ogTitle, ogDescription, ogImage, ogUrl, ogType)
      twitterCard == OrEmpty(d.twitterCard)
      twitterTitle == OrEmpty(d.twitterTitle)
      twitterDescription == OrEmpty(d.twitterDescription)
      twitterImage == OrEmpty(d.twitterImage)
      twitterSt == twitterStatus(twitterCard, twitterTitle, twitterDescription, twitterImage)
      mobile == mobileFriendliness(d)
      speed == pageSpeed(psd)
  IN [url |-> u,
      title |-> titleText,
      description |-> descriptionText,
      tagCount |-> d.metaCount,
      score |-> score(titleSt, descriptionSt, ogSt, twitterSt,
                      d.canonical, d.viewport, mobile.score),
      titleTag |-> [content |-> titleText, status |-> titleSt, feedback |-> titleFb],
      descriptionTag |-> [content |-> descriptionText, status |-> descriptionSt,
                          feedback |-> descriptionFb],
      ogTags |-> [title |-> ogTitle, description |-> ogDescription, image |-> ogImage,
                  url |-> ogUrl, type |-> ogType,
                  status |-> ogSt, feedback |-> ogFeedback(ogSt)],
      twitterTags |-> [card |-> twitterCard, title |-> twitterTitle,
                       description |-> twitterDescription, image |-> twitterImage,
                       status |-> twitterSt, feedback |-> twitterFeedback(twitterSt)],
      pageSpeed |-> speed,
      mobileFriendliness |-> mobile,
      metaTags |-> metaTags(titleText, titleSt, titleFb,
                            descriptionText, descriptionSt, descriptionFb,
                            d.keywords, d.canonical, d.robots, d.viewport),
      recommendations |-> recommendations(ogSt, twitterSt, d.canonical,
                            descriptionSt, descLen,
                            mobile.viewport, mobile.responsiveDesign,
                            mobile.touchElements, mobile.fontReadability,
                            speed.status)]

(***************************************************************************)
(* The analysis of one fetched page: POST /api/analyze hands the url, the  *)
(* parsed document and the page speed data to analyzeSEO.                  *)
(***************************************************************************)
NoResult == <<>>

Analyze ==
  /\ result = NoResult
  /\ result' = <<analyzeSEO(url, doc, pageSpeedData)>>
  /\ calls' = calls + 1
  /\ UNCHANGED <<url, doc, pageSpeedData, requests, seoAnalyses,
               analyses, metadataJobs, jobs, apiKey>>

Next == Analyze

Analyzed == result # NoResult

\* the result of the analysis, once made
res == result[1]

(***************************************************************************)
(* Documents and page speed data the analysis is run on                    *)
(***************************************************************************)
SomeText == <<"x">>

Present == Attr(SomeText)

\* an attribute may be missing, empty or filled
AttrValues == {Absent, Attr(<<>>), Present}

MetaAttributes ==
  {"description", "ogTitle", "ogDescription", "ogImage", "ogUrl", "ogType",
   "twitterCard", "twitterTitle", "twitterDescription", "twitterImage",
   "keywords", "robots", "viewport"}

\* $('meta').length is at least the number of meta elements the queries found
WithMetaCount(d, others) ==
  [d EXCEPT !.metaCount = Cardinality({a \in MetaAttributes : d[a] # Absent}) + others]

EmptyDoc ==
  [titleText |-> <<>>, description |-> Absent,
   ogTitle |-> Absent, ogDescription |-> Absent, ogImage |-> Absent,
   ogUrl |-> Absent, ogType |-> Absent,
   twitterCard |-> Absent, twitterTitle |-> Absent,
   twitterDescription |-> Absent, twitterImage |-> Absent,
   keywords |-> Absent, canonical |-> Absent, robots |-> Absent, viewport |-> Absent,
   styleElements |-> <<>>, inlineStyles |-> <<>>, responsiveImages |-> 0,
   metaCount |-> 0]

StyleMedia == <<"@", "m", "e", "d", "i", "a", " ", "p", "r", "i", "n", "t", "{", "a", "{", "}", "}">>
StyleMinWidth == <<"a", "{", "m", "i", "n", "-", "w", "i", "d", "t", "h", ":", "9", "p", "x", "}">>
StyleMinHeight == <<"a", "{", "m", "i", "n", "-", "h", "e", "i", "g", "h", "t", ":", "9", "p", "x", "}">>
StyleTouchAction == <<"a", "{", "t", "o", "u", "c", "h", "-", "a", "c", "t", "i", "o", "n", ":", "n", "o", "n", "e", "}">>
StyleUserSelect == <<"a", "{", "u", "s", "e", "r", "-", "s", "e", "l", "e", "c", "t", ":", "n", "o", "n", "e", "}">>
StyleEm == <<"p", "{", "w", "i", "d", "t", "h", ":", "2", "e", "m", "}">>
StyleRem == <<"p", "{", "w", "i", "d", "t", "h", ":", "2", "r", "e", "m", "}">>
StyleVh == <<"p", "{", "w", "i", "d", "t", "h", ":", "9", "v", "h", "}">>
StyleVw == <<"p", "{", "w", "i", "d", "t", "h", ":", "9", "v", "w", "}">>
StyleColor == <<"p", "{", "c", "o", "l", "o", "r", ":", "r", "e", "d", "}">>
\* no relative unit, yet "item" contains "em"
StyleItem == <<".", "i", "t", "e", "m", "{", "t", "o", "p", ":", "0", "}">>

InlineFlex == Attr(<<"d", "i", "s", "p", "l", "a", "y", ":", " ", "f", "l", "e", "x">>)
InlineGrid == Attr(<<"d", "i", "s", "p", "l", "a", "y", ":", " ", "g", "r", "i", "d">>)
InlineFlexGrow == Attr(<<"f", "l", "e", "x", ":", " ", "1">>)
InlineGridArea == Attr(<<"g", "r", "i", "d", "-", "a", "r", "e", "a", ":", " ", "a">>)
InlineColor == Attr(<<"c", "o", "l", "o", "r", ":", " ", "r", "e", "d">>)

GoodDoc ==
  WithMetaCount(
    [titleText |-> Letters(TitleMinLength), description |-> Attr(Letters(DescriptionMinLength)),
     ogTitle |-> Present, ogDescription |-> Present, ogImage |-> Present,
     ogUrl |-> Present, ogType |-> Present,
     twitterCard |-> Present, twitterTitle |-> Present,
     twitterDescription |-> Present, twitterImage |-> Present,
     keywords |-> Present, canonical |-> Present, robots |-> Present, viewport |-> Present,
     styleElements |-> <<StyleMedia, StyleMinWidth, StyleRem>>,
     inlineStyles |-> <<Absent, InlineFlex>>, responsiveImages |-> 1,
     metaCount |-> 0], 1)

BaseDocs == {EmptyDoc, GoodDoc}

\* all sequences over S of length at most n
RECURSIVE SeqsUpTo(_, _)
SeqsUpTo(S, n) ==
  IF n = 0 THEN {<<>>}
  ELSE LET shorter == SeqsUpTo(S, n - 1)
       IN shorter \cup {Append(q, x) : q \in shorter, x \in S}

PageSpeedDataOf(loadTimes, sizes, counts) ==
  {<<[loadTime |-> t, resourceSize |-> z, requestCount |-> c]>> :
     t \in loadTimes, z \in sizes, c \in counts}

InitWith(urls, docs, speeds) ==
  /\ url \in urls
  /\ doc \in docs
  /\ pageSpeedData \in speeds
  /\ result = NoResult
  /\ calls = 0
  /\ requests = <<>>
  /\ seoAnalyses = <<>>
  /\ analyses = <<>>
  /\ metadataJobs = <<>>
  /\ jobs = <<>>
  /\ apiKey = TRUE

PageUrl ==
  <<"h", "t", "t", "p", "s", ":", "/", "/", "e", "x", "a", "m", "p", "l",
    "e", ".", "c", "o", "m", "/", "p", "a", "g", "e">>

(***************************************************************************)
(* Spec: pages that combine every status of every analyzer                 *)
(***************************************************************************)
Flag(b) == IF b THEN Present ELSE Absent

\* the subsequences of q
SubSeqsOf(q) ==
  {SelectSeq(q, LAMBDA x : x \in S) : S \in SUBSET {q[i] : i \in 1..Len(q)}}

CombinedDocs ==
  {WithMetaCount(
     [EmptyDoc EXCEPT
        !.titleText = Letters(tl),
        !.description = ds,
        !.ogTitle = Flag(og[1]), !.ogDescription = Flag(og[2]), !.ogImage = Flag(og[3]),
        !.twitterCard = Flag(tw >= 1), !.twitterTitle = Flag(tw >= 2),
        !.twitterDescription = Flag(tw >= 2), !.twitterImage = Flag(tw >= 3),
        !.canonical = cn,
        !.viewport = vp,
        !.styleElements = st,
        !.inlineStyles = il], 0) :
     tl \in {0, TitleMinLength - 1, TitleMinLength},
     ds \in {Absent, Attr(Letters(DescriptionMinLength - 1)),
             Attr(Letters(DescriptionMinLength)), Attr(Letters(DescriptionMaxLength + 1))},
     og \in BOOLEAN \X BOOLEAN \X BOOLEAN,
     tw \in 0..3,
     cn \in AttrValues,
     vp \in AttrValues,
     st \in SubSeqsOf(<<StyleMedia, StyleMinWidth, StyleRem>>),
     il \in {<<>>, <<InlineFlex>>}}

CombinedSpeeds ==
  {Absent} \cup PageSpeedDataOf({MediumLoadTime, SlowLoadTime + 1}, {<<12>>}, {<<1>>})

Init == InitWith({PageUrl}, CombinedDocs, CombinedSpeeds)

Spec == Init /\ [][Next]_vars

(***************************************************************************)
(* SpecTitle: every title length up to MaxTitleLength, with and without    *)
(* surrounding and inner blanks                                            *)
(***************************************************************************)
MaxTitleLength == 62
MaxPad == 1

\* n characters, the second one a blank when inner is set
Body(n, inner) ==
  IF inner /\ n >= 3 THEN <<"a", " ">> \o Letters(n - 2) ELSE Letters(n)

TitleDocs ==
  {[b EXCEPT !.titleText = Blanks(l) \o Body(n, inner) \o Blanks(t)] :
     b \in BaseDocs, n \in 0..MaxTitleLength, inner \in BOOLEAN,
     l \in 0..MaxPad, t \in 0..MaxPad}

InitTitle == InitWith({PageUrl}, TitleDocs, {Absent})

SpecTitle == InitTitle /\ [][Next]_vars

(***************************************************************************)
(* SpecDescription: every description length up to MaxDescriptionLength    *)
(***************************************************************************)
MaxDescriptionLength == 162

DescriptionDocs ==
  {WithMetaCount([b EXCEPT !.description = ds], 0) :
     b \in BaseDocs,
     ds \in {Absent} \cup {Attr(Blanks(l) \o Letters(n)) :
                             n \in 0..MaxDescriptionLength, l \in 0..MaxPad}}

InitDescription == InitWith({PageUrl}, DescriptionDocs, {Absent})

SpecDescription == InitDescription /\ [][Next]_vars

(***************************************************************************)
(* SpecOpenGraph: every filling of the five Open Graph tags                *)
(***************************************************************************)
OtherText == <<"y", "z">>

OpenGraphDocs ==
  {WithMetaCount(
     [EmptyDoc EXCEPT !.ogTitle = v[1], !.ogDescription = v[2], !.ogImage = v[3],
                      !.ogUrl = v[4], !.ogType = v[5]], 0) :
     v \in AttrValues \X AttrValues \X AttrValues \X AttrValues \X AttrValues}

InitOpenGraph == InitWith({PageUrl}, OpenGraphDocs, {Absent})

SpecOpenGraph == InitOpenGraph /\ [][Next]_vars

(***************************************************************************)
(* SpecTwitter: every filling of the four Twitter Card tags                *)
(***************************************************************************)
TwitterDocs ==
  {WithMetaCount(
     [b EXCEPT !.twitterCard = v[1], !.twitterTitle = v[2],
               !.twitterDescription = v[3], !.twitterImage = v[4]], 0) :
     b \in BaseDocs,
     v \in AttrValues \X AttrValues \X AttrValues \X AttrValues}

InitTwitter == InitWith({PageUrl}, TwitterDocs, {Absent})

SpecTwitter == InitTwitter /\ [][Next]_vars

(***************************************************************************)
(* SpecMobile: style blocks, inline styles, responsive images and viewport *)
(***************************************************************************)
MaxStyleElements == 3
MaxElements == 1
MaxResponsiveImages == 1

StyleTexts ==
  {StyleMedia, StyleMinWidth, StyleMinHeight, StyleTouchAction, StyleUserSelect,
   StyleEm, StyleRem, StyleVh, StyleVw, StyleColor, StyleItem}

MobileStyles ==
  SeqsUpTo({StyleMedia, StyleMinWidth, StyleRem, StyleColor}, MaxStyleElements)
    \cup {<<x>> : x \in StyleTexts}

MobileDocs ==
  {WithMetaCount(
     [EmptyDoc EXCEPT !.viewport = vp, !.styleElements = st,
                      !.inlineStyles = il, !.responsiveImages = im], 0) :
     vp \in AttrValues,
     st \in MobileStyles,
     il \in SeqsUpTo({Absent, InlineFlex, InlineGrid, InlineFlexGrow, InlineGridArea,
                      InlineColor}, MaxElements),
     im \in 0..MaxResponsiveImages}

InitMobile == InitWith({PageUrl}, MobileDocs, {Absent})

SpecMobile == InitMobile /\ [][Next]_vars

(***************************************************************************)
(* SpecPageSpeed: every load time up to MaxLoadTime, with and without the  *)
(* optional size and request count                                         *)
(***************************************************************************)
MaxLoadTime == 3002

PageSpeeds ==
  {Absent} \cup PageSpeedDataOf(0..MaxLoadTime, {Absent, <<0>>, <<700>>},
                                {Absent, <<0>>, <<1>>, <<7>>})

InitPageSpeed == InitWith({PageUrl}, BaseDocs, PageSpeeds)

SpecPageSpeed == InitPageSpeed /\ [][Next]_vars

(***************************************************************************)
(* SpecMetaTags: every filling of the keywords, canonical, robots and      *)
(* viewport tags, under every status of the title and the description      *)
(***************************************************************************)
MetaTagsDocs ==
  {WithMetaCount(
     [EmptyDoc EXCEPT !.titleText = Letters(tl), !.description = ds,
                      !.keywords = v[1], !.canonical = v[2],
                      !.robots = v[3], !.viewport = v[4]], 0) :
     tl \in {0, TitleMinLength - 1, TitleMinLength, TitleMaxLength + 1},
     ds \in {Absent, Attr(Letters(DescriptionMinLength - 1)),
             Attr(Letters(DescriptionMinLength)), Attr(Letters(DescriptionMaxLength + 1))},
     v \in AttrValues \X AttrValues \X AttrValues \X AttrValues}

InitMetaTags == InitWith({PageUrl}, MetaTagsDocs, {Absent})

SpecMetaTags == InitMetaTags /\ [][Next]_vars

(***************************************************************************)
(* SpecPresence: every combination of present and absent tags, with and    *)
(* without a title, a style block and page speed data                      *)
(***************************************************************************)
OptionalAttributes == MetaAttributes \cup {"canonical"}

PresenceDocs ==
  {WithMetaCount(
     [EmptyDoc EXCEPT
        !.description = Flag("description" \in there), !.ogTitle = Flag("ogTitle" \in there),
        !.ogDescription = Flag("ogDescription" \in there), !.ogImage = Flag("ogImage" \in there),
        !.ogUrl = Flag("ogUrl" \in there), !.ogType = Flag("ogType" \in there),
        !.twitterCard = Flag("twitterCard" \in there), !.twitterTitle = Flag("twitterTitle" \in there),
        !.twitterDescription = Flag("twitterDescription" \in there), !.twitterImage = Flag("twitterImage" \in there),
        !.keywords = Flag("keywords" \in there), !.canonical = Flag("canonical" \in there),
        !.robots = Flag("robots" \in there), !.viewport = Flag("viewport" \in there),
        !.titleText = tt,
        !.styleElements = st], 0) :
     there \in SUBSET OptionalAttributes,
     tt \in {<<>>, Letters(TitleMinLength)},
     st \in {<<>>, <<StyleMedia>>}}

PresenceSpeeds == {Absent} \cup PageSpeedDataOf({MediumLoadTime}, {Absent}, {Absent})

InitPresence == InitWith({PageUrl}, PresenceDocs, PresenceSpeeds)

SpecPresence == InitPresence /\ [][Next]_vars

(***************************************************************************)
(* SpecAgain: the analysis is made several times, on the same page again   *)
(* or with one of its arguments replaced                                   *)
(***************************************************************************)
MaxCalls == 3

OtherUrl ==
  <<"h", "t", "t", "p", "s", ":", "/", "/", "e", "x", "a", "m", "p", "l",
    "e", ".", "o", "r", "g", "/">>

\* the base pages, and each of them with one tag, the title, the style
\* blocks, the inline styles, the responsive images or the number of other
\* meta elements replaced
AgainDocs ==
  {WithMetaCount(b, o) : b \in BaseDocs, o \in {0, 1}}
    \cup {WithMetaCount([b EXCEPT ![a] = v], 0) :
            b \in BaseDocs, a \in OptionalAttributes, v \in AttrValues}
    \cup {WithMetaCount([b EXCEPT !.titleText = Letters(n)], 0) :
            b \in BaseDocs, n \in {0, TitleMinLength - 1, TitleMinLength}}
    \cup {WithMetaCount([b EXCEPT !.description = Attr(Letters(n))], 0) :
            b \in BaseDocs, n \in {DescriptionMinLength, DescriptionMaxLength + 1}}
    \cup {WithMetaCount([b EXCEPT !.styleElements = st], 0) :
            b \in BaseDocs, st \in {<<>>, <<StyleMedia>>, <<StyleTouchAction, StyleRem>>}}
    \cup {WithMetaCount([b EXCEPT !.inlineStyles = il, !.responsiveImages = im], 0) :
            b \in BaseDocs, il \in {<<>>, <<InlineGrid>>}, im \in {0, 1}}

AgainUrls == {PageUrl, OtherUrl}

AgainSpeeds ==
  {Absent} \cup PageSpeedDataOf({MediumLoadTime, SlowLoadTime + 1},              
                                {<<12>>, <<700>>}, {<<1>>, <<7>>})

\* the same page is analyzed once more
AnalyzeAgain ==
  /\ Analyzed
  /\ calls < MaxCalls
  /\ result' = <<analyzeSEO(url, doc, pageSpeedData)>>
  /\ calls' = calls + 1
  /\ UNCHANGED <<url, doc, pageSpeedData, requests, seoAnalyses,
               analyses, metadataJobs, jobs, apiKey>>

\* the next analysis is of another page, under another address or with other
\* page speed data
AnalyzeOther ==
  /\ Analyzed
  /\ calls < MaxCalls
  /\ \/ url' \in AgainUrls \ {url} /\ UNCHANGED <<doc, pageSpeedData>>
     \/ doc' \in AgainDocs \ {doc} /\ UNCHANGED <<url, pageSpeedData>>
     \/ pageSpeedData' \in AgainSpeeds \ {pageSpeedData} /\ UNCHANGED <<url, doc>>
  /\ result' = <<analyzeSEO(url', doc', pageSpeedData')>>
  /\ calls' = calls + 1
  /\ UNCHANGED <<requests, seoAnalyses,
               analyses, metadataJobs, jobs, apiKey>>

NextAgain == Analyze \/ AnalyzeAgain \/ AnalyzeOther

InitAgain == InitWith(AgainUrls, AgainDocs, AgainSpeeds)

SpecAgain == InitAgain /\ [][NextAgain]_vars

(***************************************************************************)
(* SpecHandler: POST /api/analyze.  Each request runs the handler; its     *)
(* steps are the stretches of code between two awaits, so that the steps   *)
(* of two requests interleave.  requests[r] holds the body and the session *)
(* of request r, the handler's position and locals, and the reply sent:    *)
(*   pc       where the handler is                                         *)
(*   fetched  "pending", then "ok" (response.ok), "notOk" or "threw"       *)
(*   analysis the local analysis, NoResult until analyzeSEO has returned   *)
(*   existing the local existing of DbStorage.saveAnalysis                 *)
(*   reply    the status and the body sent, NoReply until then             *)
(* seoAnalyses is the table of that name, in insertion order, and calls    *)
(* the number of calls of analyzeSEO.  The handler keeps the analysis it   *)
(* makes in its local analysis: url, doc, pageSpeedData and result stay as *)
(* they are.                                                               *)
(***************************************************************************)
MaxRequests == 2

RequestIds == 1..MaxRequests

InvalidUrl ==
  <<"n", "o", "t", " ", "a", " ", "u", "r", "l">>

\* a page whose address holds an escaped blank
EscapedUrl ==
  <<"h", "t", "t", "p", "s", ":", "/", "/", "e", "x", "a", "m", "p", "l",
    "e", ".", "c", "o", "m", "/", "a", "%", "2", "0", "b">>

SchemeLetters == {"f", "h", "p", "s", "t"}

\* z.string().url(): new URL(u) asks for a scheme, letters up to a colon,
\* with something after it
IsUrl(u) ==
  \E i \in 2..Len(u) - 1 :
    /\ u[i] = ":"
    /\ \A j \in 1..i - 1 : u[j] \in SchemeLetters

NoReply == <<>>

Reply(status, body) == <<[status |-> status, body |-> body]>>

InvalidUrlMessage == "Invalid URL provided"

FetchFailedMessage == "Failed to fetch URL"

AnalyzeFailedMessage == "Failed to analyze the URL"

\* userId || null
OrNull(userId) == IF userId # Absent /\ userId[1] # 0 THEN userId ELSE Absent

\* what DbStorage.getAnalysisByUrl can return: the select states no order, so
\* that results[0] is any of the rows of the url
getAnalysisByUrl(table, u) ==
  LET results == {i \in DOMAIN table : table[i].url = u}
  IN IF results = {} THEN {NoResult} ELSE {<<table[i].data>> : i \in results}

\* orderBy(desc(analyzed_at)).limit(limit), then record => record.data
Latest(rows, limit) ==
  [i \in 1..Min(limit, Len(rows)) |-> rows[Len(rows) + 1 - i].data]

\* DbStorage.getRecentAnalyses: the rows of the user, if one is given
getRecentAnalyses(table, limit, userId) ==
  Latest(IF OrNull(userId) # Absent
           THEN SelectSeq(table, LAMBDA row : row.userId = userId)
         ELSE table, limit)

\* DbStorage.getUserAnalyses
getUserAnalyses(table, userId, limit) ==
  Latest(SelectSeq(table, LAMBDA row : row.userId = <<userId>>), limit)

\* the body is parsed; without force the stored analysis is looked up next,
\* with force the page is fetched
Post(r) ==
  /\ requests[r].pc = "post"
  /\ requests' =
       [requests EXCEPT ![r] =
          IF ~IsUrl(@.url)
            THEN [@ EXCEPT !.pc = "done", !.reply = Reply(400, InvalidUrlMessage)]
          ELSE IF ~@.force THEN [@ EXCEPT !.pc = "lookup"]
          ELSE [@ EXCEPT !.pc = "fetch"]]
  /\ UNCHANGED <<url, doc, pageSpeedData, result, calls, seoAnalyses,
               analyses, metadataJobs, jobs, apiKey>>

\* storage.getAnalysisByUrl(url) returns: a stored analysis is sent back
Lookup(r) ==
  /\ requests[r].pc = "lookup"
  /\ \E existingAnalysis \in getAnalysisByUrl(seoAnalyses, requests[r].url) :
       requests' =
         [requests EXCEPT ![r] =
            IF existingAnalysis # NoResult
              THEN [@ EXCEPT !.pc = "done", !.reply = Reply(200, existingAnalysis[1])]
            ELSE [@ EXCEPT !.pc = "fetch"]]
  /\ UNCHANGED <<url, doc, pageSpeedData, result, calls, seoAnalyses,
               analyses, metadataJobs, jobs, apiKey>>

\* Fetch that goes on to read the body whatever the status of the answer
FetchIgnoringStatus(r) ==
  /\ requests[r].pc = "fetch"
  /\ \E outcome \in {"threw", "notOk", "ok"} :
       requests' =
         [requests EXCEPT ![r] =
            IF outcome = "threw"
              THEN [@ EXCEPT !.fetched = outcome, !.pc = "done",
                             !.reply = Reply(500, AnalyzeFailedMessage)]
            ELSE [@ EXCEPT !.fetched = outcome, !.pc = "text"]]
  /\ UNCHANGED <<url, doc, pageSpeedData, result, calls, seoAnalyses,
               analyses, metadataJobs, jobs, apiKey>>

\* fetch(url) settles: it throws, or answers with a status that is ok or not
Fetch(r) ==
  /\ requests[r].pc = "fetch"
  /\ \E outcome \in {"threw", "notOk", "ok"} :
       requests' =
         [requests EXCEPT ![r] =
            IF outcome = "threw"
              THEN [@ EXCEPT !.fetched = outcome, !.pc = "done",
                             !.reply = Reply(500, AnalyzeFailedMessage)]
            ELSE IF outcome = "notOk"
              THEN [@ EXCEPT !.fetched = outcome, !.pc = "done",
                             !.reply = Reply(400, FetchFailedMessage)]
            ELSE [@ EXCEPT !.fetched = outcome, !.pc = "text"]]
  /\ UNCHANGED <<url, doc, pageSpeedData, result, calls, seoAnalyses,
               analyses, metadataJobs, jobs, apiKey>>

PageDocs == BaseDocs

LoadTimes == {MediumLoadTime, SlowLoadTime + 1}

\* content-length / 1024, or html.length / 1024 without that header
ResourceSizes == {12}

\* response.text() settles: it throws, or gives the page; the page is then
\* timed and analyzed, and DbStorage.saveAnalysis starts with its lookup
ReadText(r) ==
  /\ requests[r].pc = "text"
  /\ \/ /\ requests' = [requests EXCEPT ![r].pc = "done",
                                        ![r].reply = Reply(500, AnalyzeFailedMessage)]
        /\ calls' = calls
     \/ \E html \in PageDocs, loadTime \in LoadTimes, resourceSize \in ResourceSizes :
          LET analysis ==
                analyzeSEO(requests[r].url, html,
                           <<[loadTime |-> loadTime, resourceSize |-> <<resourceSize>>,
                              requestCount |-> <<1>>]>>)
          IN /\ requests' = [requests EXCEPT ![r].pc = "saveCheck",
                                             ![r].analysis = <<analysis>>]
             /\ calls' = calls + 1
  /\ UNCHANGED <<url, doc, pageSpeedData, result, seoAnalyses,
               analyses, metadataJobs, jobs, apiKey>>

\* DbStorage.saveAnalysis: getAnalysisByUrl(analysis.url) returns
SaveCheck(r) ==
  /\ requests[r].pc = "saveCheck"
  /\ \E existing \in getAnalysisByUrl(seoAnalyses, requests[r].analysis[1].url) :
       requests' = [requests EXCEPT ![r].existing = existing # NoResult,
                                    ![r].pc = "saveWrite"]
  /\ UNCHANGED <<url, doc, pageSpeedData, result, calls, seoAnalyses,
               analyses, metadataJobs, jobs, apiKey>>

\* saveAnalysis with an update that leaves the user of the row as it was
SaveWriteKeepingOwner(r) ==
  /\ requests[r].pc = "saveWrite"
  /\ LET analysis == requests[r].analysis[1]
         userId == IF requests[r].authenticated THEN requests[r].user ELSE Absent
         updated(row) == [row EXCEPT !.data = analysis]
         rows == SelectSeq(seoAnalyses, LAMBDA row : row.url = analysis.url)
     IN /\ seoAnalyses' =
             IF requests[r].existing
               THEN SelectSeq(seoAnalyses, LAMBDA row : row.url # analysis.url)
                      \o [i \in DOMAIN rows |-> updated(rows[i])]
             ELSE Append(seoAnalyses,
                         [url |-> analysis.url, data |-> analysis, userId |-> OrNull(userId)])
        /\ requests' = [requests EXCEPT ![r].pc = "done", ![r].reply = Reply(200, analysis)]
  /\ UNCHANGED <<url, doc, pageSpeedData, result, calls,
               analyses, metadataJobs, jobs, apiKey>>

\* DbStorage.saveAnalysis: the rows of the url are updated, or a row is
\* inserted; the analysis is then sent back.  seoAnalyses lists the rows by
\* analyzed_at, oldest first: an inserted row has the default now() and an
\* updated one is given new Date(), so that both become the latest
SaveWrite(r) ==
  /\ requests[r].pc = "saveWrite"
  /\ LET analysis == requests[r].analysis[1]
         userId == IF requests[r].authenticated THEN requests[r].user ELSE Absent
         updated(row) == [row EXCEPT !.data = analysis, !.userId = OrNull(userId)]
         rows == SelectSeq(seoAnalyses, LAMBDA row : row.url = analysis.url)
     IN /\ seoAnalyses' =
             IF requests[r].existing
               THEN SelectSeq(seoAnalyses, LAMBDA row : row.url # analysis.url)
                      \o [i \in DOMAIN rows |-> updated(rows[i])]
             ELSE Append(seoAnalyses,
                         [url |-> analysis.url, data |-> analysis, userId |-> OrNull(userId)])
        /\ requests' = [requests EXCEPT ![r].pc = "done", ![r].reply = Reply(200, analysis)]
  /\ UNCHANGED <<url, doc, pageSpeedData, result, calls,
               analyses, metadataJobs, jobs, apiKey>>

NextHandler ==
  \E r \in RequestIds :
    Post(r) \/ Lookup(r) \/ Fetch(r) \/ ReadText(r) \/ SaveCheck(r) \/ SaveWrite(r)

RequestUrls == {PageUrl, OtherUrl, InvalidUrl}

UserIds == {1}

\* a request as it arrives: its body and its session
NewRequests ==
  [pc : {"post"}, url : RequestUrls, force : BOOLEAN,
   authenticated : BOOLEAN, user : {<<u>> : u \in UserIds},
   fetched : {"pending"}, analysis : {NoResult}, existing : {FALSE}, reply : {NoReply}]

InitHandler ==
  /\ url = PageUrl
  /\ doc = EmptyDoc
  /\ pageSpeedData = Absent
  /\ result = NoResult
  /\ calls = 0
  /\ requests \in [RequestIds -> NewRequests]
  /\ seoAnalyses = <<>>
  /\ analyses = <<>>
  /\ metadataJobs = <<>>
  /\ jobs = <<>>
  /\ apiKey = TRUE

SpecHandler == InitHandler /\ [][NextHandler]_vars

(***************************************************************************)
(* SpecSequential: the requests are served one after the other.  Besides   *)
(* POST /api/analyze the client asks GET /api/analysis?url=... for the     *)
(* stored analysis of a url, which it encodes into the query string.       *)
(***************************************************************************)

PercentUrl ==
  <<"h", "t", "t", "p", "s", ":", "/", "/", "e", "x", "a", "m", "p", "l",
    "e", ".", "c", "o", "m", "/", "5", "0", "%">>

\* the characters encodeURIComponent leaves as they are
Unreserved ==
  {"a", "b", "c", "d", "e", "f", "g", "h", "i", "j", "k", "l", "m", "n", "o",
   "p", "q", "r", "s", "t", "u", "v", "w", "x", "y", "z", "0", "1", "2", "3",
   "4", "5", "6", "7", "8", "9", "-", "_", ".", "!", "~", "*", "'", "(", ")"}

\* the UTF-8 code, in hexadecimal, of the other characters of the urls
Escapes ==
  (":" :> <<"3", "A">>) @@ ("/" :> <<"2", "F">>) @@ ("%" :> <<"2", "5">>)
    @@ (" " :> <<"2", "0">>)

\* client: encodeURIComponent(url), character by character
encodeURIComponent(t) ==
  LET encoded[i \in 0..Len(t)] ==
        IF i = 0 THEN <<>>
        ELSE IF t[i] \in Unreserved THEN Append(encoded[i - 1], t[i])
        ELSE encoded[i - 1] \o <<"%">> \o Escapes[t[i]]
  IN encoded[Len(t)]

URIError == <<"URIError: URI malformed">>

\* decodeURIComponent(t): each % with its two hexadecimal digits becomes the
\* character of that code; a % without them throws
decodeURIComponent(t) ==
  LET code(i) == <<t[i + 1], t[i + 2]>>
      Unescaped(hex) == {c \in DOMAIN Escapes : Escapes[c] = hex}
      malformed == \E i \in DOMAIN t :
                     t[i] = "%" /\ (i + 2 > Len(t) \/ Unescaped(code(i)) = {})
      decoded[i \in 0..Len(t)] ==
        IF i = 0 THEN <<>>
        ELSE IF t[i] = "%" THEN Append(decoded[i - 1], CHOOSE c \in Unescaped(code(i)) : TRUE)
        ELSE IF (i > 1 /\ t[i - 1] = "%") \/ (i > 2 /\ t[i - 2] = "%") THEN decoded[i - 1]
        ELSE Append(decoded[i - 1], t[i])
  IN IF malformed THEN URIError ELSE decoded[Len(t)]

\* Express fills req.query from the query string: the value is decoded, and
\* kept as it is when it cannot be
queryParam(value) ==
  LET decoded == decodeURIComponent(value)
  IN IF decoded = URIError THEN value ELSE decoded

\* GET /api/analysis: the query parameter is decoded and the analysis stored
\* under the decoded url is sent back
GetAnalysis(r) ==
  /\ requests[r].pc = "get"
  /\ LET urlParam == queryParam(encodeURIComponent(requests[r].url))
         decodedUrl == decodeURIComponent(urlParam)
         found == IF urlParam = <<>> \/ decodedUrl = URIError THEN {NoResult}
                  ELSE getAnalysisByUrl(seoAnalyses, decodedUrl)
     IN \E analysis \in found :
          requests' =
            [requests EXCEPT ![r].pc = "done",
               ![r].reply =
                  IF urlParam = <<>> THEN Reply(400, "URL parameter is required")
                  ELSE IF decodedUrl = URIError THEN Reply(500, "Failed to fetch analysis")
                  ELSE IF analysis = NoResult THEN Reply(404, "Analysis not found for the provided URL")
                  ELSE Reply(200, analysis[1])]
  /\ UNCHANGED <<url, doc, pageSpeedData, result, calls, seoAnalyses,
               analyses, metadataJobs, jobs, apiKey>>

\* no other request is being served
Idle(r) == \A q \in RequestIds \ {r} : requests[q].pc \in {"post", "get", "done"}

NextSequential ==
  \E r \in RequestIds :
    \/ Idle(r) /\ Post(r)
    \/ Idle(r) /\ Lookup(r)
    \/ Idle(r) /\ Fetch(r)
    \/ Idle(r) /\ ReadText(r)
    \/ Idle(r) /\ SaveCheck(r)
    \/ Idle(r) /\ SaveWrite(r)
    \/ Idle(r) /\ GetAnalysis(r)

\* POST /api/analyze and GET /api/analysis requests as they arrive, from
\* nobody or from one of two users
SequentialRequests ==
  LET SequentialUrls == {PageUrl, EscapedUrl, PercentUrl}
      Sessions == {[authenticated |-> FALSE, user |-> Absent]}
                    \cup {[authenticated |-> TRUE, user |-> <<u>>] : u \in {1, 2}}
  IN
  {[pc |-> "post", url |-> u, force |-> f, authenticated |-> s.authenticated,
    user |-> s.user, fetched |-> "pending", analysis |-> NoResult,
    existing |-> FALSE, reply |-> NoReply] :
      u \in SequentialUrls, f \in BOOLEAN, s \in Sessions}
    \cup {[pc |-> "get", url |-> u, force |-> FALSE, authenticated |-> FALSE,
           user |-> Absent, fetched |-> "pending", analysis |-> NoResult,
           existing |-> FALSE, reply |-> NoReply] : u \in SequentialUrls \cup {<<>>}}

InitSequential ==
  /\ url = PageUrl
  /\ doc = EmptyDoc
  /\ pageSpeedData = Absent
  /\ result = NoResult
  /\ calls = 0
  /\ requests \in [RequestIds -> SequentialRequests]
  /\ seoAnalyses = <<>>
  /\ analyses = <<>>
  /\ metadataJobs = <<>>
  /\ jobs = <<>>
  /\ apiKey = TRUE

SpecSequential == InitSequential /\ [][NextSequential]_vars

(***************************************************************************)
(* SpecMemStorage: the in-memory storage.  analyses is its Map, the        *)
(* entries in the order a Map iterates them, which is the order the keys   *)
(* were first set in; requests lists the saveAnalysis calls made so far,   *)
(* and result holds what the last getRecentAnalyses returned.              *)
(***************************************************************************)

MaxSaves == 3
MaxLimit == 2

\* Map.set(key, value): a key the Map holds keeps its place
MapSet(map, key, value) ==
  IF \E i \in DOMAIN map : map[i].key = key
    THEN [i \in DOMAIN map |-> IF map[i].key = key THEN [key |-> key, value |-> value]
                               ELSE map[i]]
  ELSE Append(map, [key |-> key, value |-> value])

\* MemStorage.getRecentAnalyses: values, filter, map, slice(0, limit), reverse
MemGetRecentAnalyses(map, limit, userId) ==
  LET values == [i \in DOMAIN map |-> map[i].value]
      filtered == IF OrNull(userId) # Absent
                    THEN SelectSeq(values, LAMBDA entry : entry.userId = userId)
                  ELSE values
      mapped == [i \in DOMAIN filtered |-> filtered[i].analysis]
      sliced == SubSeq(mapped, 1, Min(limit, Len(mapped)))
  IN [i \in DOMAIN sliced |-> sliced[Len(sliced) + 1 - i]]

\* MemStorage.saveAnalysis(analysis, userId)
MemSaveAnalysis ==
  /\ Len(requests) < MaxSaves
  /\ \E u \in {PageUrl, OtherUrl, EscapedUrl}, d \in BaseDocs, userId \in {Absent, <<1>>} :
       LET analysis == analyzeSEO(u, d, Absent)
       IN /\ analyses' = MapSet(analyses, analysis.url,
                                [analysis |-> analysis, userId |-> userId])
          /\ requests' = Append(requests, [analysis |-> analysis, userId |-> userId])
  /\ UNCHANGED <<url, doc, pageSpeedData, result, calls, seoAnalyses, metadataJobs, jobs, apiKey>>

\* MemStorage.getRecentAnalyses(limit, userId) and getUserAnalyses(userId, limit)
MemGetRecent ==
  /\ \E limit \in 1..MaxLimit, userId \in {Absent, <<1>>} :
       result' = <<[limit |-> limit, userId |-> userId,
                    analyses |-> MemGetRecentAnalyses(analyses, limit, userId)]>>
  /\ UNCHANGED <<url, doc, pageSpeedData, calls, requests, seoAnalyses,
               analyses, metadataJobs, jobs, apiKey>>

NextMemStorage == MemSaveAnalysis \/ MemGetRecent

SpecMemStorage == InitWith({PageUrl}, {EmptyDoc}, {Absent}) /\ [][NextMemStorage]_vars

(***************************************************************************)
(* SpecJobs: the bulk metadata jobs.  metadataJobs is the table, a row per *)
(* job created, the fresh uuid of a job being the number of its row; jobs  *)
(* holds the run of processJobAsync of each job, from one await to the     *)
(* next, job 0 being a run started for an id that has no row; apiKey tells *)
(* whether DEEPSEEK_API_KEY is set.                                        *)
(***************************************************************************)

MaxJobs == 1
MaxPages == 11

BatchSize == 10

\* the numbers of pages of a request: the client sends at least one
PageCounts == {n \in 1..MaxPages : n % BatchSize \in {0, 1}}

\* Math.round((done / total) * 100)
RoundedPercent(done, total) == (200 * done + total) \div (2 * total)

\* db.update(metadataJobs).set(fields).where(eq(metadataJobs.jobId, jobId))
UpdateJob(table, jobId, fields) ==
  [i \in DOMAIN table |->
     IF table[i].jobId = jobId
       THEN [f \in DOMAIN table[i] |-> IF f \in DOMAIN fields THEN fields[f] ELSE table[i][f]]
     ELSE table[i]]

NoRun ==
  [pc |-> "none", totalPages |-> 0, i |-> 0, results |-> <<>>, error |-> "", written |-> ""]

\* createJob: the row is inserted and processJobAsync is started
CreateJob ==
  /\ Len(metadataJobs) < MaxJobs
  /\ \E pages \in PageCounts, userId \in {<<1>>} :
       LET jobId == Len(metadataJobs) + 1
       IN /\ metadataJobs' =
               Append(metadataJobs,
                      [jobId |-> jobId, status |-> "queued", progress |-> 0,
                       message |-> "", data |-> [pages |-> pages],
                       userId |-> OrNull(userId)])
          /\ jobs' = [jobs EXCEPT ![jobId].pc = "start"]
  /\ UNCHANGED <<url, doc, pageSpeedData, result, calls, requests, seoAnalyses, analyses, apiKey>>

\* processJobAsync(jobId) for an id that no row has
ProcessUnknownJob ==
  /\ jobs[0].pc = "none"
  /\ jobs' = [jobs EXCEPT ![0].pc = "start"]
  /\ UNCHANGED <<url, doc, pageSpeedData, result, calls, requests, seoAnalyses,
               analyses, metadataJobs, apiKey>>

\* updateJobStatus(jobId, 'processing', 0, 'Starting processing')
StartProcessing(j) ==
  /\ jobs[j].pc = "start"
  /\ metadataJobs' =
       UpdateJob(metadataJobs, j,
                 [status |-> "processing", progress |-> 0, message |-> "Starting processing"])
  /\ jobs' = [jobs EXCEPT ![j].pc = "getJob", ![j].written = "processing"]
  /\ UNCHANGED <<url, doc, pageSpeedData, result, calls, requests, seoAnalyses, analyses, apiKey>>

\* getJob(jobId): without a row 'Job not found' is thrown; the loop over the
\* batches starts at i = 0
GetJob(j) ==
  /\ jobs[j].pc = "getJob"
  /\ LET found == {i \in DOMAIN metadataJobs : metadataJobs[i].jobId = j}
     IN jobs' =
          [jobs EXCEPT ![j] =
             IF found = {} THEN [@ EXCEPT !.pc = "fail", !.error = "Job not found"]
             ELSE LET totalPages == metadataJobs[CHOOSE i \in found : TRUE].data.pages
                  IN [@ EXCEPT !.totalPages = totalPages, !.i = 0,
                                !.pc = IF 0 < totalPages THEN "batch" ELSE "save"]]
  /\ UNCHANGED <<url, doc, pageSpeedData, result, calls, requests, seoAnalyses,
               analyses, metadataJobs, apiKey>>

\* processBatch with an AI call that makes every batch fail the job
ProcessBatchFailingJob(j) ==
  /\ jobs[j].pc = "batch"
  /\ \E outcome \in {"ok", "not ok", "unparsable"} :
       jobs' =
         [jobs EXCEPT ![j] =
            IF ~apiKey THEN [@ EXCEPT !.pc = "fail", !.error = "DeepSeek API key not found"]
            ELSE IF outcome # "ok" THEN [@ EXCEPT !.pc = "fail", !.error = outcome]
            ELSE [@ EXCEPT !.pc = "progress",
                           !.results = @ \o [p \in 1..Min(BatchSize, jobs[j].totalPages - jobs[j].i) |->
                                               [score |-> 85, validationIssues |-> Absent]]]]
  /\ UNCHANGED <<url, doc, pageSpeedData, result, calls, requests, seoAnalyses,
               analyses, metadataJobs, apiKey>>

\* processBatch(request.pages.slice(i, i + batchSize)): without the API key
\* it throws; a response that is not ok, or whose content is no JSON, gives
\* every page of the batch the score 0 and the error as validation issue
ProcessBatch(j) ==
  /\ jobs[j].pc = "batch"
  /\ \E outcome \in {"ok", "not ok", "unparsable"} :
       LET batch == 1..Min(BatchSize, jobs[j].totalPages - jobs[j].i)
           batchResults ==
             IF outcome = "ok" THEN [p \in batch |-> [score |-> 85, validationIssues |-> Absent]]
             ELSE [p \in batch |->
                     [score |-> 0,
                      validationIssues |->
                        <<IF outcome = "not ok" THEN "DeepSeek API error"
                          ELSE "Failed to parse AI response">>]]
       IN jobs' =
            [jobs EXCEPT ![j] =
               IF ~apiKey
                 THEN [@ EXCEPT !.pc = "fail", !.error = "DeepSeek API key not found"]
               ELSE [@ EXCEPT !.pc = "progress", !.results = @ \o batchResults]]
  /\ UNCHANGED <<url, doc, pageSpeedData, result, calls, requests, seoAnalyses,
               analyses, metadataJobs, apiKey>>

\* the progress update without the cap of 99
UpdateProgressUncapped(j) ==
  /\ jobs[j].pc = "progress"
  /\ LET batchLength == Min(BatchSize, jobs[j].totalPages - jobs[j].i)
         progress == RoundedPercent(jobs[j].i + batchLength, jobs[j].totalPages)
     IN /\ metadataJobs' =
             UpdateJob(metadataJobs, j,
                       [status |-> "processing", progress |-> progress, message |-> "Processed"])
        /\ jobs' = [jobs EXCEPT ![j].i = @ + BatchSize, ![j].written = "processing",
                                ![j].pc = IF jobs[j].i + BatchSize < jobs[j].totalPages
                                            THEN "batch" ELSE "save"]
  /\ UNCHANGED <<url, doc, pageSpeedData, result, calls, requests, seoAnalyses, analyses, apiKey>>

\* updateJobStatus(jobId, 'processing', progress, ...), then i += batchSize
UpdateProgress(j) ==
  /\ jobs[j].pc = "progress"
  /\ LET batchLength == Min(BatchSize, jobs[j].totalPages - jobs[j].i)
         progress == Min(RoundedPercent(jobs[j].i + batchLength, jobs[j].totalPages), 99)
     IN /\ metadataJobs' =
             UpdateJob(metadataJobs, j,
                       [status |-> "processing", progress |-> progress, message |-> "Processed"])
        /\ jobs' = [jobs EXCEPT ![j].i = @ + BatchSize, ![j].written = "processing",
                                ![j].pc = IF jobs[j].i + BatchSize < jobs[j].totalPages
                                            THEN "batch" ELSE "save"]
  /\ UNCHANGED <<url, doc, pageSpeedData, result, calls, requests, seoAnalyses, analyses, apiKey>>

\* saveJobResults(jobId, response)
SaveJobResults(j) ==
  /\ jobs[j].pc = "save"
  /\ metadataJobs' =
       UpdateJob(metadataJobs, j,
                 [status |-> "completed", progress |-> 100, message |-> "Processing complete",
                  data |-> [results |-> jobs[j].results, totalPages |-> jobs[j].totalPages,
                            processedPages |-> Len(jobs[j].results)]])
  /\ jobs' = [jobs EXCEPT ![j].pc = "done", ![j].written = "completed"]
  /\ UNCHANGED <<url, doc, pageSpeedData, result, calls, requests, seoAnalyses, analyses, apiKey>>

\* catch (error): updateJobStatus(jobId, 'failed', 0, `Job failed: ...`)
FailJob(j) ==
  /\ jobs[j].pc = "fail"
  /\ metadataJobs' =
       UpdateJob(metadataJobs, j,
                 [status |-> "failed", progress |-> 0, message |-> jobs[j].error])
  /\ jobs' = [jobs EXCEPT ![j].pc = "done", ![j].written = "failed"]
  /\ UNCHANGED <<url, doc, pageSpeedData, result, calls, requests, seoAnalyses, analyses, apiKey>>

\* a storage operation throws instead of returning: inside the try the catch
\* takes over, inside the catch the run ends with nothing written
StorageThrows(j) ==
  /\ jobs[j].pc \in {"start", "getJob", "progress", "save", "fail"}
  /\ jobs' = [jobs EXCEPT ![j].pc = IF @ = "fail" THEN "done" ELSE "fail",
                          ![j].error = "storage error"]
  /\ UNCHANGED <<url, doc, pageSpeedData, result, calls, requests, seoAnalyses,
               analyses, metadataJobs, apiKey>>

\* the next step of the run of a job, every operation returning
Resume(j) ==
  \/ StartProcessing(j) \/ GetJob(j) \/ ProcessBatch(j) \/ UpdateProgress(j)
  \/ SaveJobResults(j) \/ FailJob(j)

NextJobsReturning == CreateJob \/ ProcessUnknownJob \/ \E j \in 0..MaxJobs : Resume(j)

NextJobs == NextJobsReturning \/ \E j \in 0..MaxJobs : StorageThrows(j)

InitJobs ==
  /\ url = PageUrl
  /\ doc = EmptyDoc
  /\ pageSpeedData = Absent
  /\ result = NoResult
  /\ calls = 0
  /\ requests = <<>>
  /\ seoAnalyses = <<>>
  /\ analyses = <<>>
  /\ metadataJobs = <<>>
  /\ jobs = [j \in 0..MaxJobs |-> NoRun]
  /\ apiKey \in BOOLEAN

SpecJobs == InitJobs /\ [][NextJobs]_vars

\* every operation returns, and the event loop resumes a run that waits for
\* one
SpecJobsReturning ==
  InitJobs /\ [][NextJobsReturning]_vars /\ \A j \in 0..MaxJobs : WF_vars(Resume(j))

(***************************************************************************)
(* SpecAdding: a page is analyzed, then analyzed again each time one tag,  *)
(* one inline style, a responsive image or one style block has been added  *)
(***************************************************************************)
PresenceTags ==
  {"ogTitle", "ogDescription", "ogImage",
   "twitterCard", "twitterTitle", "twitterDescription", "twitterImage",
   "canonical", "viewport"}

\* the elements of q that are x or already in present, in the order of q
Added(q, present, x) ==
  SelectSeq(q, LAMBDA y : y = x \/ \E i \in 1..Len(present) : present[i] = y)

\* the pages d becomes by one addition
OneMore(d) ==
  {WithMetaCount([d EXCEPT ![a] = Present], 0) : a \in {t \in PresenceTags : d[t] = Absent}}
    \cup {[d EXCEPT !.inlineStyles = Added(<<InlineFlex, InlineGrid>>, @, x)] :
            x \in {InlineFlex, InlineGrid}}
    \cup {[d EXCEPT !.responsiveImages = 1]}
    \cup {[d EXCEPT !.styleElements = Added(<<StyleMedia, StyleTouchAction, StyleRem>>, @, x)] :
            x \in {StyleMedia, StyleTouchAction, StyleRem}}

AddAndAnalyze ==
  /\ Analyzed
  /\ doc' \in OneMore(doc) \ {doc}
  /\ result' = <<analyzeSEO(url, doc', pageSpeedData)>>
  /\ calls' = calls + 1
  /\ UNCHANGED <<url, pageSpeedData, requests, seoAnalyses,
               analyses, metadataJobs, jobs, apiKey>>

NextAdding == Analyze \/ AddAndAnalyze

AddingDocs ==
  {EmptyDoc,
   WithMetaCount([EmptyDoc EXCEPT !.titleText = Letters(TitleMinLength),
                                  !.description = Attr(Letters(DescriptionMinLength))], 0)}

InitAdding == InitWith({PageUrl}, AddingDocs, {Absent})

SpecAdding == InitAdding /\ [][NextAdding]_vars

(***************************************************************************)
(* Properties                                                              *)
(***************************************************************************)
\* an optional attribute that counts as absent: no attribute, or an empty one
Missing(v) == v \in {Absent, Attr(<<>>)}

Deduction(status, forWarning, forError) ==
  IF status = "warning" THEN forWarning
  ELSE IF status = "error" THEN forError
  ELSE 0

ExpectedDeductions ==
    Deduction(res.titleTag.status, 5, 15)
  + Deduction(res.descriptionTag.status, 5, 15)
  + Deduction(res.ogTags.status, 10, 15)
  + Deduction(res.twitterTags.status, 10, 15)
  + (IF Missing(doc.canonical) THEN 10 ELSE 0)
  + (IF Missing(doc.viewport) THEN 10 ELSE 0)
  + (IF res.mobileFriendliness.score < 50 THEN 15
     ELSE IF res.mobileFriendliness.score < 80 THEN 8
     ELSE 0)

\* C1: the overall score of every result is max(0, min(100, 100 - D)), D being
\* the sum of the stacking deductions: title and description warning 5 / error
\* 15, Open Graph and Twitter warning 10 / error 15, canonical absent 10,
\* viewport absent 10, mobile score below 50 gives 15, otherwise below 80 gives 8.
ScoreIsHundredMinusDeductions ==
  Analyzed =>
    LET raw == 100 - ExpectedDeductions
        capped == IF raw > 100 THEN 100 ELSE raw
    IN res.score = (IF capped < 0 THEN 0 ELSE capped)

\* title error, Open Graph error, canonical absent, the rest good, mobile 90: 60
ScoreExampleSixty ==
  /\ Analyzed
  /\ res.titleTag.status = "error"
  /\ res.descriptionTag.status = "good"
  /\ res.ogTags.status = "error"
  /\ res.twitterTags.status = "good"
  /\ doc.canonical = Absent
  /\ doc.viewport = Present
  /\ res.mobileFriendliness.score = 90
  /\ res.score = 60

\* C2: the overall score of every result is an integer between 0 and 100.
ScoreInRange == Analyzed => res.score \in 0..100

\* the page with nothing on it gets the lowest score
ScoreLowest ==
  /\ Analyzed
  /\ ExpectedDeductions = 95
  /\ res.score = 5

\* the length of t between its first and its last character that is no blank
TrimmedLength(t) ==
  LET filled == {i \in 1..Len(t) : t[i] # " "}
  IN IF filled = {} THEN 0
     ELSE (CHOOSE hi \in filled : \A j \in filled : j <= hi)
            - (CHOOSE lo \in filled : \A j \in filled : lo <= j) + 1

\* C3: with L the length of the trimmed title, the title status is error for
\* L = 0, warning for 1 <= L <= 29, good for 30 <= L <= 60 and warning for
\* L >= 61; the Title row of the meta tags carries the same status and feedback.
TitleStatusByLength ==
  Analyzed =>
    LET L == TrimmedLength(doc.titleText)
        st == res.titleTag.status
    IN /\ Len(res.titleTag.content) = L
       /\ L = 0 => st = "error"
       /\ (1 <= L /\ L <= 29) => st = "warning"
       /\ (30 <= L /\ L <= 60) => st = "good"
       /\ L >= 61 => st = "warning"
       /\ res.metaTags[1].type = "Title"
       /\ res.metaTags[1].status = st
       /\ res.metaTags[1].recommendation = res.titleTag.feedback

\* a padded title of 61 characters is too long
TitleSixtyOnePadded ==
  /\ Analyzed
  /\ TrimmedLength(doc.titleText) = 61
  /\ Len(doc.titleText) = 63
  /\ res.titleTag.status = "warning"
  /\ res.metaTags[1].status = "warning"

\* the length of the content attribute of the meta description, 0 without one
ContentLength(v) == IF v = Absent THEN 0 ELSE Len(v[1])

\* C4: with L the length of the meta description, the description status is
\* error for L = 0, warning for 1 <= L <= 119, good for 120 <= L <= 160 and
\* warning for L >= 161.
DescriptionStatusByLength ==
  Analyzed =>
    LET L == ContentLength(doc.description)
        st == res.descriptionTag.status
    IN /\ L = 0 => st = "error"
       /\ (1 <= L /\ L <= 119) => st = "warning"
       /\ (120 <= L /\ L <= 160) => st = "good"
       /\ L >= 161 => st = "warning"

\* a description of 160 characters is still good
DescriptionHundredSixty ==
  /\ Analyzed
  /\ ContentLength(doc.description) = 160
  /\ res.descriptionTag.status = "good"

\* C5: the Open Graph status is error iff og:title, og:description and og:image
\* are all absent, good iff all three are present and warning otherwise;
\* changing only og:url or og:type never changes it.
OpenGraphStatusByPresence ==
  Analyzed =>
    LET t == Missing(doc.ogTitle)
        d == Missing(doc.ogDescription)
        i == Missing(doc.ogImage)
        st == res.ogTags.status
    IN /\ st = "error" <=> (t /\ d /\ i)
       /\ st = "good" <=> (~t /\ ~d /\ ~i)
       /\ st = "warning" <=> (~(t /\ d /\ i) /\ (t \/ d \/ i))
       /\ \A u \in AttrValues \cup {Attr(OtherText)} :
            \A ty \in AttrValues \cup {Attr(OtherText)} :
              analyzeSEO(url, [doc EXCEPT !.ogUrl = u, !.ogType = ty],
                         pageSpeedData).ogTags.status = st

\* the three deciding tags present, og:url and og:type absent: good
OpenGraphGoodWithoutUrlAndType ==
  /\ Analyzed
  /\ ~Missing(doc.ogTitle) /\ ~Missing(doc.ogDescription) /\ ~Missing(doc.ogImage)
  /\ doc.ogUrl = Absent /\ doc.ogType = Absent
  /\ res.ogTags.status = "good"

\* C6: the Twitter status is error iff twitter:card, twitter:title,
\* twitter:description and twitter:image are all absent, good iff all four are
\* present and warning otherwise.
TwitterStatusByPresence ==
  Analyzed =>
    LET c == Missing(doc.twitterCard)
        t == Missing(doc.twitterTitle)
        d == Missing(doc.twitterDescription)
        i == Missing(doc.twitterImage)
        st == res.twitterTags.status
    IN /\ st = "error" <=> (c /\ t /\ d /\ i)
       /\ st = "good" <=> (~c /\ ~t /\ ~d /\ ~i)
       /\ st = "warning" <=> (~(c /\ t /\ d /\ i) /\ (c \/ t \/ d \/ i))

\* only twitter:card absent: warning
TwitterWarningWithoutCard ==
  /\ Analyzed
  /\ Missing(doc.twitterCard)
  /\ ~Missing(doc.twitterTitle) /\ ~Missing(doc.twitterDescription)
  /\ ~Missing(doc.twitterImage)
  /\ res.twitterTags.status = "warning"

Points(flag, n) == IF flag THEN n ELSE 0

\* C7: the mobile score is 40 for the viewport + 25 for responsive design + 15
\* for touch elements + 10 for font readability + 10 for media queries, counting
\* the sub-signals of the result; it lies in 0..100 and is 100 exactly when all
\* five sub-signals are true.
MobileScoreIsWeightedSum ==
  Analyzed =>
    LET m == res.mobileFriendliness
    IN /\ m.score = Points(m.viewport, 40) + Points(m.responsiveDesign, 25)
                      + Points(m.touchElements, 15) + Points(m.fontReadability, 10)
                      + Points(m.mediaQueries, 10)
       /\ m.score \in 0..100
       /\ m.score = 100 <=> (m.viewport /\ m.responsiveDesign /\ m.touchElements
                               /\ m.fontReadability /\ m.mediaQueries)

\* all five sub-signals true: 100
MobileScoreHundred ==
  /\ Analyzed
  /\ res.mobileFriendliness.viewport
  /\ res.mobileFriendliness.responsiveDesign
  /\ res.mobileFriendliness.touchElements
  /\ res.mobileFriendliness.fontReadability
  /\ res.mobileFriendliness.mediaQueries
  /\ res.mobileFriendliness.score = 100

\* C8: with s the mobile score, the mobile status is good iff s >= 80, warning
\* iff 50 <= s < 80 and error iff s < 50; the feedback is the Excellent text iff
\* s >= 90, the Good text iff 80 <= s < 90, the Needs improvement text iff
\* 50 <= s < 80 and the Major improvements needed text iff s < 50.
MobileBands ==
  Analyzed =>
    LET s == res.mobileFriendliness.score
        st == res.mobileFriendliness.status
        fb == res.mobileFriendliness.feedback
    IN /\ st = "good" <=> s >= 80
       /\ st = "warning" <=> (50 <= s /\ s < 80)
       /\ st = "error" <=> s < 50
       /\ fb = "Excellent! Your website appears to be very mobile-friendly."
            <=> s >= 90
       /\ fb = "Good! Your website has most of the elements needed for mobile users."
            <=> (80 <= s /\ s < 90)
       /\ fb = "Needs improvement. Your site has some mobile-friendly elements, but could be better optimized."
            <=> (50 <= s /\ s < 80)
       /\ fb = "Major improvements needed. Your site doesn't appear to be optimized for mobile devices."
            <=> s < 50

\* a mobile score of exactly 80 is good, with the Good text
MobileEightyGood ==
  /\ Analyzed
  /\ res.mobileFriendliness.score = 80
  /\ res.mobileFriendliness.status = "good"
  /\ res.mobileFriendliness.feedback
       = "Good! Your website has most of the elements needed for mobile users."

\* C9: with t the load time handed to the analysis, the page speed status is
\* error iff t > 3000, warning iff 1500 < t <= 3000 and good iff t <= 1500;
\* another resource size or request count gives the same status.
PageSpeedStatusByLoadTime ==
  (Analyzed /\ pageSpeedData # Absent) =>
    LET t == pageSpeedData[1].loadTime
        st == res.pageSpeed.status
    IN /\ st = "error" <=> t > 3000
       /\ st = "warning" <=> (1500 < t /\ t <= 3000)
       /\ st = "good" <=> t <= 1500
       /\ \A z \in {Absent, <<0>>, <<1>>, <<9000>>} :
            \A c \in {Absent, <<0>>, <<1>>, <<90>>} :
              pageSpeed(<<[loadTime |-> t, resourceSize |-> z,
                           requestCount |-> c]>>).status = st

\* a load time of exactly 3000 ms is a warning
PageSpeedThreeThousand ==
  /\ Analyzed
  /\ pageSpeedData # Absent
  /\ pageSpeedData[1].loadTime = 3000
  /\ res.pageSpeed.status = "warning"

RuleTitles ==
  <<"Add Open Graph Tags", "Add Twitter Card Tags", "Add Canonical URL",
    "Meta Description Length", "Add Viewport Meta Tag",
    "Implement Responsive Design", "Optimize for Touch Devices",
    "Improve Font Readability", "Improve Page Speed">>

\* whether each of the nine rules is triggered, from the document and the verdicts
RuleTriggers ==
  <<res.ogTags.status # "good",
    res.twitterTags.status # "good",
    Missing(doc.canonical),
    res.descriptionTag.status = "warning" /\ ContentLength(doc.description) < 120,
    Missing(doc.viewport),
    ~res.mobileFriendliness.responsiveDesign,
    ~res.mobileFriendliness.touchElements,
    ~res.mobileFriendliness.fontReadability,
    res.pageSpeed.status # "good">>

RuleStatuses ==
  <<"warning", "warning", "warning", "warning", "error",
    "warning", "warning", "warning", res.pageSpeed.status>>

\* C10: the recommendation list holds the recommendation of each of the nine
\* rules iff the rule's trigger holds, with the rule's status (Improve Page
\* Speed with the page speed status); its length is the number of triggered
\* rules, and it is empty iff no rule is triggered.
RecommendationsMatchTriggers ==
  Analyzed =>
    LET recs == res.recommendations
    IN /\ \A k \in 1..9 :
            /\ (\E i \in 1..Len(recs) : recs[i].title = RuleTitles[k]) <=> RuleTriggers[k]
            /\ \A i \in 1..Len(recs) :
                 recs[i].title = RuleTitles[k] => recs[i].status = RuleStatuses[k]
       /\ \A i \in 1..Len(recs) : \E k \in 1..9 : recs[i].title = RuleTitles[k]
       /\ Len(recs) = Cardinality({k \in 1..9 : RuleTriggers[k]})
       /\ recs = <<>> <=> (\A k \in 1..9 : ~RuleTriggers[k])

\* a description that is too long, and no recommendation about its length,
\* while the eight other rules fire
RecommendationsAllButDescription ==
  /\ Analyzed
  /\ ContentLength(doc.description) = 161
  /\ res.descriptionTag.status = "warning"
  /\ Len(res.recommendations) = 8
  /\ \A i \in 1..8 : res.recommendations[i].title # "Meta Description Length"
  /\ res.recommendations[8].status = "error"

\* the place of a recommendation title in the order of the rules
RulePosition(t) == CHOOSE k \in 1..9 : RuleTitles[k] = t

\* C11: the recommendation list is a subsequence of the nine rules in their
\* fixed order (Open Graph, Twitter, canonical, description length, viewport,
\* responsive design, touch, font, page speed): of any two entries the earlier
\* one belongs to the earlier rule, so no title occurs twice and the list is
\* not sorted by severity.
RecommendationsInRuleOrder ==
  Analyzed =>
    LET recs == res.recommendations
    IN /\ \A i \in 1..Len(recs) : \E k \in 1..9 : recs[i].title = RuleTitles[k]
       /\ \A i \in 1..Len(recs) : \A j \in 1..Len(recs) :
            i < j => RulePosition(recs[i].title) < RulePosition(recs[j].title)

\* all nine rules fire: the viewport error stays fifth, behind four warnings,
\* and the page speed error comes last
RecommendationsErrorInTheMiddle ==
  /\ Analyzed
  /\ Len(res.recommendations) = 9
  /\ res.recommendations[1].status = "warning"
  /\ res.recommendations[5].title = "Add Viewport Meta Tag"
  /\ res.recommendations[5].status = "error"
  /\ res.recommendations[6].status = "warning"
  /\ res.recommendations[9].title = "Improve Page Speed"
  /\ res.recommendations[9].status = "error"

\* C15: analyzeSEO called without page speed data does not fail: the result's
\* pageSpeed carries loadTime 2000, resourceSize 500, requestCount 1 and the
\* status of 2000 ms, warning.
MissingPageSpeedDataGetsDefaults ==
  pageSpeedData = Absent =>
    /\ result = NoResult => ENABLED Analyze
    /\ Analyzed =>
         /\ res.pageSpeed.loadTime = 2000
         /\ res.pageSpeed.resourceSize = 500
         /\ res.pageSpeed.requestCount = 1
         /\ res.pageSpeed.status = "warning"
         /\ res.pageSpeed.feedback = "Page load time is acceptable but could be improved."

\* a page analysed without page speed data
AnalyzedWithoutPageSpeedData ==
  /\ Analyzed
  /\ pageSpeedData = Absent
  /\ res.pageSpeed.loadTime = 2000
  /\ res.pageSpeed.status = "warning"

\* a page with no title, description, Open Graph or Twitter tag, canonical
\* link, viewport, style block, inline style or responsive image
EmptyPage ==
  /\ TrimmedLength(doc.titleText) = 0
  /\ Missing(doc.description)
  /\ Missing(doc.ogTitle) /\ Missing(doc.ogDescription) /\ Missing(doc.ogImage)
  /\ Missing(doc.ogUrl) /\ Missing(doc.ogType)
  /\ Missing(doc.twitterCard) /\ Missing(doc.twitterTitle)
  /\ Missing(doc.twitterDescription) /\ Missing(doc.twitterImage)
  /\ Missing(doc.canonical)
  /\ Missing(doc.viewport)
  /\ doc.styleElements = <<>>
  /\ doc.inlineStyles = <<>>
  /\ doc.responsiveImages = 0

LoadedIn(t) == pageSpeedData # Absent /\ pageSpeedData[1].loadTime = t

\* C19: the empty page analysed with a load time of 500 ms has title,
\* description, Open Graph and Twitter status error, Canonical URL and Viewport
\* rows error, mobile score 0 with status error, page speed good and score 5.
EmptyPageScoresFive ==
  (Analyzed /\ EmptyPage /\ LoadedIn(500)) =>
    /\ res.titleTag.status = "error"
    /\ res.descriptionTag.status = "error"
    /\ res.ogTags.status = "error"
    /\ res.twitterTags.status = "error"
    /\ res.metaTags[4].type = "Canonical URL" /\ res.metaTags[4].status = "error"
    /\ res.metaTags[6].type = "Viewport" /\ res.metaTags[6].status = "error"
    /\ res.mobileFriendliness.score = 0
    /\ res.mobileFriendliness.status = "error"
    /\ res.pageSpeed.status = "good"
    /\ res.score = 5

\* the empty page, loaded in 500 ms, analysed
EmptyPageAnalyzed ==
  /\ Analyzed
  /\ EmptyPage
  /\ LoadedIn(500)
  /\ res.recommendations # <<>>

\* some element's inline style contains pat
InlineStyleContains(pat) ==
  \E i \in 1..Len(doc.inlineStyles) :
    doc.inlineStyles[i] # Absent /\ Includes(doc.inlineStyles[i][1], pat)

\* C16: the responsive design sub-signal is true iff some inline style
\* contains "flex", or some inline style contains "grid", or there is an
\* img[srcset] or picture source element, or the media queries sub-signal is
\* true; so media queries true implies responsive design true.
ResponsiveDesignBySignals ==
  Analyzed =>
    LET m == res.mobileFriendliness
    IN /\ m.responsiveDesign <=>
            \/ InlineStyleContains(<<"f", "l", "e", "x">>)
            \/ InlineStyleContains(<<"g", "r", "i", "d">>)
            \/ doc.responsiveImages >= 1
            \/ m.mediaQueries
       /\ m.mediaQueries => m.responsiveDesign

\* media queries alone make the design responsive
ResponsiveByMediaQueriesAlone ==
  /\ Analyzed
  /\ res.mobileFriendliness.mediaQueries
  /\ ~InlineStyleContains(<<"f", "l", "e", "x">>)
  /\ ~InlineStyleContains(<<"g", "r", "i", "d">>)
  /\ doc.responsiveImages = 0
  /\ res.mobileFriendliness.responsiveDesign

\* C17: for every input the metaTags list of the result has exactly six
\* rows, whose types are, in this order, Title, Meta Description, Meta
\* Keywords, Canonical URL, Robots Meta, Viewport.
SixMetaTagRowsInOrder ==
  Analyzed =>
    /\ Len(res.metaTags) = 6
    /\ [i \in 1..Len(res.metaTags) |-> res.metaTags[i].type]
         = <<"Title", "Meta Description", "Meta Keywords", "Canonical URL",
             "Robots Meta", "Viewport">>

\* a page with none of the four additional tags still gets the six rows
SixRowsForPageWithoutTags ==
  /\ Analyzed
  /\ doc.keywords = Absent /\ doc.canonical = Absent
  /\ doc.robots = Absent /\ doc.viewport = Absent
  /\ Len(res.metaTags) = 6

PresenceStatus(v, whenPresent, whenAbsent) ==
  IF Missing(v) THEN whenAbsent ELSE whenPresent

\* C18: the Title row and the Meta Description row carry the status and the
\* feedback of the title and the description verdicts; Meta Keywords is
\* warning when present and error when absent; Canonical URL is good when
\* present and error when absent; Robots Meta is good when present and warning
\* when absent, and its content is then "index, follow"; Viewport is good when
\* present and error when absent.
MetaTagRowStatuses ==
  Analyzed =>
    LET rows == res.metaTags
    IN /\ rows[1].status = res.titleTag.status
       /\ rows[1].recommendation = res.titleTag.feedback
       /\ rows[2].status = res.descriptionTag.status
       /\ rows[2].recommendation = res.descriptionTag.feedback
       /\ rows[3].status = PresenceStatus(doc.keywords, "warning", "error")
       /\ rows[4].status = PresenceStatus(doc.canonical, "good", "error")
       /\ rows[5].status = PresenceStatus(doc.robots, "good", "warning")
       /\ Missing(doc.robots) =>
            rows[5].content
              = <<(<<"i", "n", "d", "e", "x", ",", " ", "f", "o", "l", "l", "o", "w">>)>>
       /\ ~Missing(doc.robots) => rows[5].content = doc.robots
       /\ rows[6].status = PresenceStatus(doc.viewport, "good", "error")

\* a page with keywords and without robots: a warning on both rows, under a
\* title that is an error and a description that is good
KeywordsPresentRobotsAbsent ==
  /\ Analyzed
  /\ ~Missing(doc.keywords)
  /\ doc.robots = Absent
  /\ res.metaTags[3].status = "warning"
  /\ res.metaTags[5].status = "warning"
  /\ res.metaTags[1].status = "error"
  /\ res.metaTags[2].status = "good"

Statuses == {"good", "warning", "error"}

ResultFields ==
  {"url", "title", "description", "tagCount", "score", "titleTag", "descriptionTag",
   "ogTags", "twitterTags", "pageSpeed", "mobileFriendliness", "metaTags",
   "recommendations"}

\* C20: the analysis is total: for every combination of present and absent
\* fields it returns a complete result, in which every status
\* is good, warning or error; and an empty title, an absent description, no
\* Open Graph tag at all, no Twitter Card tag at all and no mobile signal at
\* all each give the status error.
AnalysisIsTotal ==
  /\ result = NoResult => DOMAIN analyzeSEO(url, doc, pageSpeedData) = ResultFields
  /\ Analyzed =>
       /\ DOMAIN res = ResultFields
       /\ res.titleTag.status \in Statuses
       /\ res.descriptionTag.status \in Statuses
       /\ res.ogTags.status \in Statuses
       /\ res.twitterTags.status \in Statuses
       /\ res.pageSpeed.status \in Statuses
       /\ res.mobileFriendliness.status \in Statuses
       /\ \A i \in 1..Len(res.metaTags) : res.metaTags[i].status \in Statuses
       /\ \A i \in 1..Len(res.recommendations) : res.recommendations[i].status \in Statuses
       /\ doc.titleText = <<>> => res.titleTag.status = "error"
       /\ doc.description = Absent => res.descriptionTag.status = "error"
       /\ (\A a \in {"ogTitle", "ogDescription", "ogImage", "ogUrl", "ogType"} :
             doc[a] = Absent)
            => res.ogTags.status = "error"
       /\ (\A a \in {"twitterCard", "twitterTitle", "twitterDescription", "twitterImage"} :
             doc[a] = Absent)
            => res.twitterTags.status = "error"
       /\ (/\ doc.viewport = Absent
           /\ doc.styleElements = <<>>
           /\ doc.inlineStyles = <<>>
           /\ doc.responsiveImages = 0)
            => res.mobileFriendliness.status = "error"

\* a page with nothing in it, analyzed without page speed data
NothingExtractedAllErrors ==
  /\ Analyzed
  /\ doc = EmptyDoc
  /\ pageSpeedData = Absent
  /\ res.titleTag.status = "error"
  /\ res.descriptionTag.status = "error"
  /\ res.ogTags.status = "error"
  /\ res.twitterTags.status = "error"
  /\ res.mobileFriendliness.status = "error"

\* the page d with the tags that take no part in the score taken from e
WithUnscoredOf(d, e) ==
  [d EXCEPT !.keywords = e.keywords, !.robots = e.robots,
            !.ogUrl = e.ogUrl, !.ogType = e.ogType, !.metaCount = e.metaCount]

\* C12: the overall score depends on nothing but the title, description, Open
\* Graph and Twitter statuses, the presence of the canonical link and of the
\* viewport tag, and the mobile score: an analysis that follows another with
\* all of these the same has the same score, and so has one whose inputs
\* differ only in the page speed data, the keywords, the robots tag, og:url,
\* og:type, the analyzed URL or the number of meta elements.
ScoreDependsOnVerdictsOnly ==
  [][(Analyzed /\ Analyzed') =>
       /\ (/\ res'.titleTag.status = res.titleTag.status
           /\ res'.descriptionTag.status = res.descriptionTag.status
           /\ res'.ogTags.status = res.ogTags.status
           /\ res'.twitterTags.status = res.twitterTags.status
           /\ Missing(doc'.canonical) = Missing(doc.canonical)
           /\ Missing(doc'.viewport) = Missing(doc.viewport)
           /\ res'.mobileFriendliness.score = res.mobileFriendliness.score)
            => res'.score = res.score
       /\ WithUnscoredOf(doc', doc) = doc => res'.score = res.score]_vars

\* two analyses in a row that differ in og:url alone, with the same score
AnalyzedAgainWithOtherOgUrl ==
  /\ Analyzed
  /\ calls = 2
  /\ doc.ogUrl = Attr(<<>>)
  /\ doc.ogTitle = Absent
  /\ res.ogTags.status = "error"
  /\ res.score = 5

FetchFailed(request) == request.fetched \in {"notOk", "threw"}

\* C14: in POST /api/analyze, when the fetch of the page fails (an answer
\* that is not ok, or an error thrown by fetch), the request ends there: the
\* step in which the fetch fails calls no analysis and leaves the stored
\* analyses as they are, the request has no analysis and takes no further
\* step, and its reply is a failure, 400 with a message for an answer that is
\* not ok and 500 with a message for a thrown error; the analysis is called
\* and the table written only by requests whose fetch was ok.
FailedFetchAbortsRequest ==
  [][/\ \A r \in RequestIds :
          /\ FetchFailed(requests'[r]) =>
               /\ requests'[r].pc = "done"
               /\ requests'[r].analysis = NoResult
               /\ requests'[r].reply =
                    IF requests'[r].fetched = "notOk"
                      THEN <<[status |-> 400, body |-> FetchFailedMessage]>>
                      ELSE <<[status |-> 500, body |-> AnalyzeFailedMessage]>>
          /\ (FetchFailed(requests'[r]) /\ ~FetchFailed(requests[r])) =>
               /\ calls' = calls
               /\ seoAnalyses' = seoAnalyses
          /\ FetchFailed(requests[r]) => requests'[r] = requests[r]
     /\ (calls' # calls \/ seoAnalyses' # seoAnalyses) =>
          \E r \in RequestIds :
            requests[r].fetched = "ok" /\ requests'[r] # requests[r]]_vars

\* a forced request whose fetch was answered with a failing status, beside the
\* analysis of the same url that another request has stored
FailedFetchBesideStoredAnalysis ==
  \E r \in RequestIds :
    /\ requests[r].force
    /\ requests[r].fetched = "notOk"
    /\ requests[r].reply # NoReply
    /\ requests[r].reply[1].status = 400
    /\ Len(seoAnalyses) = 1
    /\ seoAnalyses[1].url = requests[r].url
    /\ calls = 1

\* C23: the overall score is never below 5: the deductions add up to at most
\* 95 (15 + 15 + 15 + 15 + 10 + 10 + 15), so the score is 100 minus the
\* deductions as it stands, neither clamp changing it.
ScoreNeverBelowFive ==
  Analyzed =>
    /\ res.score >= 5
    /\ ExpectedDeductions <= 15 + 15 + 15 + 15 + 10 + 10 + 15
    /\ res.score = 100 - ExpectedDeductions

\* every deduction at its largest
ScoreWithAllDeductions ==
  /\ Analyzed
  /\ ExpectedDeductions = 95
  /\ res.score = 5

\* C24: when the viewport tag is absent the mobile score is at most 60, the
\* mobile status is not good and the overall score is at most 82; so a good
\* mobile status implies a viewport tag.
NoViewportCapsMobileAndScore ==
  Analyzed =>
    /\ Missing(doc.viewport) =>
         /\ res.mobileFriendliness.score <= 60
         /\ res.mobileFriendliness.status # "good"
         /\ res.score <= 82
    /\ res.mobileFriendliness.status = "good" => ~Missing(doc.viewport)

\* no viewport tag, and everything else in place
BestPageWithoutViewport ==
  /\ Analyzed
  /\ doc.viewport = Absent
  /\ res.mobileFriendliness.score = 60
  /\ res.mobileFriendliness.status = "warning"
  /\ res.score = 82

\* C25: when the recommendation list is empty, the Open Graph, Twitter,
\* mobile and page speed statuses are good and the canonical link and the
\* viewport tag are present; what is deducted is what the title (0, 5 or 15)
\* and a missing (15) or too long (5) description cost, so that the score is at
\* least 70.
NoRecommendationMeansOnlyTitleAndDescription ==
  (Analyzed /\ res.recommendations = <<>>) =>
    /\ res.ogTags.status = "good"
    /\ res.twitterTags.status = "good"
    /\ res.mobileFriendliness.status = "good"
    /\ res.pageSpeed.status = "good"
    /\ ~Missing(doc.canonical)
    /\ ~Missing(doc.viewport)
    /\ res.descriptionTag.status = "warning"
         => ContentLength(doc.description) > DescriptionMaxLength
    /\ res.score = 100 - Deduction(res.titleTag.status, 5, 15)
                       - Deduction(res.descriptionTag.status, 5, 15)
    /\ res.score >= 70

\* no recommendation for a page without title and without description: 70
NoRecommendationYetSeventy ==
  /\ Analyzed
  /\ res.recommendations = <<>>
  /\ doc.titleText = <<>>
  /\ doc.description = Absent
  /\ res.score = 70

\* C26: the overall score and the mobile score never go down when something
\* is added to the page: an Open Graph title, description or image, a Twitter
\* card, title, description or image, the canonical link, the viewport tag,
\* an inline flex or grid style, a responsive image, a style block with a
\* media query, with touch-friendly CSS or with relative font units.
ScoreMonotoneInPresence ==
  [][(Analyzed /\ Analyzed' /\ doc' \in OneMore(doc)) =>
       /\ res'.score >= res.score
       /\ res'.mobileFriendliness.score >= res.mobileFriendliness.score]_vars

\* everything has been added, one analysis after each addition
EverythingAdded ==
  /\ Analyzed
  /\ calls = 16
  /\ res.mobileFriendliness.score = 100
  /\ res.score = 100

\* request r completes its save in this step
SaveCompletes(r) == requests[r].pc = "saveWrite" /\ requests'[r].pc = "done"

\* C21: the stored analyses are keyed by URL: whatever the requests and
\* however their steps interleave, the table never holds two rows of one URL,
\* and once a save has completed getAnalysisByUrl returns the analysis of
\* that save for its URL, until the next save completes (only a save changes
\* the table).
StoredAnalysesKeyedByUrl ==
  [][/\ \A i, j \in DOMAIN seoAnalyses' :
          seoAnalyses'[i].url = seoAnalyses'[j].url => i = j
     /\ \A r \in RequestIds :
          SaveCompletes(r) =>
            getAnalysisByUrl(seoAnalyses', requests[r].analysis[1].url)
              = {requests[r].analysis}
     /\ (\A r \in RequestIds : ~SaveCompletes(r)) => seoAnalyses' = seoAnalyses]_vars

\* C22: without force a stored analysis is sent back as it is, with nothing
\* fetched and nothing written; with force, or with nothing stored, the page
\* is fetched and analyzed, and the new analysis is saved in place of any
\* previous one and sent back; a GET /api/analysis for a url that has a
\* stored analysis is answered with that analysis
AnalyzeThenGetReturnsIt ==
  [][\A r \in RequestIds :
       LET stored == getAnalysisByUrl(seoAnalyses, requests[r].url)
           left(pc) == requests[r].pc = pc /\ requests'[r].pc # pc
       IN /\ (left("lookup") /\ stored # {NoResult}) =>
               /\ requests'[r].pc = "done"
               /\ requests'[r].reply \in {Reply(200, a[1]) : a \in stored}
               /\ requests'[r].fetched = "pending"
               /\ seoAnalyses' = seoAnalyses
               /\ calls' = calls
          /\ (left("lookup") /\ stored = {NoResult}) => requests'[r].pc = "fetch"
          /\ (left("post") /\ IsUrl(requests[r].url) /\ requests[r].force) =>
               requests'[r].pc = "fetch"
          /\ SaveCompletes(r) =>
               /\ requests'[r].reply = Reply(200, requests[r].analysis[1])
               /\ getAnalysisByUrl(seoAnalyses', requests[r].url) = {requests[r].analysis}
          /\ (left("get") /\ stored # {NoResult}) =>
               requests'[r].reply \in {Reply(200, a[1]) : a \in stored}]_vars

MemRecentIsLatestFirst ==
  [][(result' # result /\ result'[1].userId = Absent) =>
       LET saves == requests
           \* the saves that no later save of the same url follows, latest first
           last == SelectSeq([i \in DOMAIN saves |-> saves[Len(saves) + 1 - i]],
                             LAMBDA save : \E i \in DOMAIN saves :
                               /\ saves[i] = save
                               /\ \A j \in i + 1..Len(saves) :
                                    saves[j].analysis.url # save.analysis.url)
           given == result'[1].analyses
       IN /\ Len(given) = Min(result'[1].limit, Len(last))
          /\ \A i \in DOMAIN given : given[i] = last[i].analysis]_vars

\* C27: the stored status of a job starts as queued and only moves from
\* queued to processing and from processing to completed or to failed;
\* nothing is written to a completed or failed job; the progress of a
\* processing job never decreases and is at most 99; the progress is 100
\* exactly when the job is completed, and 0 when it is failed
JobStatusMovesInOrder ==
  [][\A j \in DOMAIN metadataJobs' :
       IF j \notin DOMAIN metadataJobs
         THEN metadataJobs'[j].status = "queued" /\ metadataJobs'[j].progress = 0
       ELSE LET old == metadataJobs[j]
                new == metadataJobs'[j]
            IN /\ \/ new.status = old.status
                  \/ old.status = "queued" /\ new.status = "processing"
                  \/ old.status = "processing" /\ new.status \in {"completed", "failed"}
               /\ old.status \in {"completed", "failed"} => new = old
               /\ (old.status = "processing" /\ new.status = "processing") =>
                    old.progress <= new.progress
               /\ new.status = "processing" => new.progress <= 99
               /\ new.progress = 100 <=> new.status = "completed"
               /\ new.status = "failed" => new.progress = 0]_vars

\* C27, amended: the same, except that a job whose first status write throws
\* goes from queued to failed without having been processing
JobStatusMovesInOrderOrFailsQueued ==
  [][\A j \in DOMAIN metadataJobs' :
       IF j \notin DOMAIN metadataJobs
         THEN metadataJobs'[j].status = "queued" /\ metadataJobs'[j].progress = 0
       ELSE LET old == metadataJobs[j]
                new == metadataJobs'[j]
            IN /\ \/ new.status = old.status
                  \/ old.status = "queued" /\ new.status = "processing"
                  \/ old.status = "processing" /\ new.status \in {"completed", "failed"}
                  \/ old.status = "queued" /\ new.status = "failed"
               /\ old.status \in {"completed", "failed"} => new = old
               /\ (old.status = "processing" /\ new.status = "processing") =>
                    old.progress <= new.progress
               /\ new.status = "processing" => new.progress <= 99
               /\ new.progress = 100 <=> new.status = "completed"
               /\ new.status = "failed" => new.progress = 0]_vars

\* a job has failed after some progress had been stored
FailedAfterProgress ==
  \E j \in DOMAIN metadataJobs :
    /\ metadataJobs[j].status = "failed" /\ metadataJobs[j].progress = 0
    /\ jobs[j].i > 0

====
